---- MODULE Spec2Model ----
(***************************************************************************)
(* Manager side of the distributed Gradient Boosted Trees learner          *)
(* (distributed_gradient_boosted_trees.cc): the training driver            *)
(* TrainWithCache, the iteration driver RunIteration, the protocol         *)
(* emitters and the checkpoint store.  Workers and the transport are the   *)
(* environment: every reply is chosen nondeterministically.                *)
(***************************************************************************)
EXTENDS Integers, Sequences, FiniteSets, TLC

\* ------------------------------------------------------------------ bounds
MaxWorkers == 2        \* worker counts 1..MaxWorkers in the driver model
MaxTrees == 2          \* num_trees in 1..MaxTrees
MaxDepth == 2          \* decision_tree.max_depth in 1..MaxDepth
MaxTreesPerIter == 2   \* size of the loss' initial predictions (K)
MaxFeatures == 3       \* input features: lists of at most MaxFeatures columns
MaxCkptWorkers == 8    \* workers of the large cluster (two checkpoint shards)
NumExamples == 5       \* num_examples of the label statistics of the dataset
MaxOpenNodes == 1      \* open nodes of a weak model in a layer after the first
MaxShards == 4         \* checkpoint shards of the clusters of the shard ranges

\* ------------------------------------------------------------------ state
VARIABLES
  config,        \* immutable configuration of the run
  pc,            \* position of the driver thread
  phase,         \* "call" (emitter about to start) or "recv" (fan-in loop)
  status,        \* status returned by TrainWithCache ("none" while running)
  iter_idx,      \* TrainWithCache: loop counter
  layer_idx,     \* RunIteration: depth-loop counter
  model,         \* the accumulating model
  label_statistics,
  last_checkpoint_idx,              \* StatusOr<int>: -1 stands for "not ok"
  minimum_iter_for_new_checkpoint,
  iter_status,   \* status returned by the last RunIteration call
  reply_idx,     \* fan-in loop counter of the running emitter
  retries,       \* EmitCreateCheckpoint: reissued shard requests
  active_workers,\* result of EmitEvaluateSplits
  ckpt,          \* arguments of the running CreateCheckpoint call
  resync,        \* TRUE while restoring after a data-loss
  current_stage, \* Monitoring::current_stage_
  pending,       \* requests sent whose reply was not consumed yet
  snapshots,     \* snapshot index file of the work directory
  checkpoint_dir,\* files below <wd>/checkpoint/<i>
  emit,          \* history: bookkeeping of the last emitter call
  iter_trace,    \* history: emitters started by the current RunIteration
  in_iteration,  \* history: StartNewIter was sent, RunIteration not returned
  restored,      \* history: checkpoint index of the last data-loss restore
  features,      \* input features of the training (column indices)
  cache_metadata,\* dataset cache metadata: the column of each feature
  duplicate_computation_on_all_workers,  \* spe_config.internal() flag
  feature_ownership, \* result of AssignFeaturesToWorkers
  random,        \* number of values the process has drawn from random(),
                 \* -1 where the specification does not observe the seeds
  rnd,           \* TrainWithCache's RandomEngine (line 326): the times it
                 \* was handed to std::shuffle or to a distribution since
                 \* it was seeded, -1 where the specification does not
                 \* observe the sampling
  deployment,    \* the learner's DeploymentConfig (deployment_)
  work_directory,\* TrainWithStatus' work_directory, "" until it is resolved
  dataset_cache, \* the dataset cache below the work directory was created
  splits_per_weak_models, \* RunIteration: the merged splits of the layer,
                 \* one list per weak model; <<>> where the specification does
                 \* not observe the splits
  weak_models,   \* RunIteration: num_open_nodes() of each weak model's tree
                 \* builder; <<>> where the open nodes are not observed
  dt_config,     \* spe_config.gbt().decision_tree(): num_candidate_attributes
                 \* and num_candidate_attributes_ratio
  dataset_num_examples, \* label_statistics.num_examples(), NumExamples where the
                 \* specification does not vary the dataset
  training_evaluation \* TrainWithCache's Evaluation: loss and metrics; loss -1
                 \* where the specification does not observe the evaluation

vars == <<config, pc, phase, status, iter_idx, layer_idx, model,
          label_statistics, last_checkpoint_idx,
          minimum_iter_for_new_checkpoint, iter_status, reply_idx, retries,
          active_workers, ckpt, resync, current_stage, pending, snapshots,
          checkpoint_dir, emit, iter_trace, in_iteration, restored,
          features, cache_metadata, duplicate_computation_on_all_workers,
          feature_ownership, random, rnd, deployment, work_directory,
          dataset_cache, splits_per_weak_models, weak_models, dt_config,
          dataset_num_examples, training_evaluation>>

\* The feature ownership and what it is computed from: set once per process.
ownerVars == <<features, cache_metadata,
               duplicate_computation_on_all_workers, feature_ownership>>

\* Inputs of single emitters that the specifications of these emitters
\* observe.
sampleVars == <<splits_per_weak_models, weak_models, dt_config, dataset_num_examples>>

iterVars == <<sampleVars, training_evaluation>>

\* decision_tree() without num_candidate_attributes and without
\* num_candidate_attributes_ratio (a ratio is a pair <<numerator, denominator>>).
DefaultDtConfig ==
  [num_candidate_attributes |-> 0, num_candidate_attributes_ratio |-> <<0, 1>>]

\* The evaluation of a specification that does not observe it.
NoEvaluation == [loss |-> -1, metrics |-> <<>>]

\* The driver specifications do not observe them.
Unobserved ==
  /\ splits_per_weak_models = <<>>
  /\ weak_models = <<>>
  /\ dt_config = DefaultDtConfig
  /\ dataset_num_examples = NumExamples
  /\ training_evaluation = NoEvaluation

\* What TrainWithStatus sets up before it calls TrainWithCache.
callVars == <<deployment, work_directory, dataset_cache>>

\* ---------------------------------------------------------------- helpers
Max(S) == CHOOSE x \in S : \A y \in S : y <= x

Range(q) == {q[i] : i \in DOMAIN q}

Workers == 0 .. (config.num_workers - 1)

NoStage == "none"
NotOk == -1

\* A model: number of trees per iteration, decision trees, training-log entries.
\* A model without trees; `iters` and `seeds` list, for each iteration whose
\* trees the model holds, its index and the seed its StartNewIter request
\* carried.
EmptyModel == [num_trees_per_iter |-> 1, trees |-> 0, logs |-> 0,
               seeds |-> <<>>, iters |-> <<>>]

\* random() of line 510 is the C library generator: its n-th call in a process
\* returns the n-th value of one fixed sequence.  Values are named by their
\* rank in that sequence (0 is the first); ranks of MaxTrees and more are not
\* told apart, they are beyond the rank of every iteration index.  The
\* specifications that do not observe the seeds keep -1 for every value.
\* The value the n-th call of random() returns (n counted from 0).
Seed(n) == IF n < 0 THEN -1 ELSE IF n < MaxTrees THEN n ELSE MaxTrees

\* The number of calls after one more call.
Draw(n) == IF n < 0 THEN -1 ELSE IF n <= MaxTrees THEN n + 1 ELSE MaxTrees + 1

\* The engine after `uses` more uses.
Use(n, uses) == IF n < 0 THEN -1 ELSE n + uses

\* The number of calls in a new process.
NewProcess(n) == IF n < 0 THEN -1 ELSE 0

\* A checkpoint directory: each file is the set of its contents, {} when absent.
EmptyDir == [model |-> {}, meta |-> {}, shards |-> {}]

\* Monitoring::BeginStage: a stage left open is kept (warning only).
BeginStage(cur, stage) == IF cur # NoStage THEN cur ELSE stage

\* Monitoring::EndStage: closes whatever stage is open.
EndStage(cur, stage) == NoStage

\* A reply of the transport: its status, and for an ok status the worker result.
Replies ==
  {[ok |-> FALSE, restart |-> FALSE, has |-> FALSE]} \cup
  {[ok |-> TRUE, restart |-> r, has |-> h] : r \in BOOLEAN, h \in BOOLEAN}

Request(type, worker, id) == [type |-> type, worker |-> worker, id |-> id]

\* No reply consumed by the last step.
NoReply == [ok |-> TRUE, restart |-> FALSE, has |-> TRUE]

\* No shard request reissued by the last step.
NoReissue == [from |-> -1, request |-> Request("none", -1, -1)]

\* History of an emitter call: requests sent, replies consumed, the reply the
\* emitter read last (skipped answers are not read), the emitter's status
\* ("running" until it returns), the shard request the last step reissued with
\* the worker whose reply caused it, and the requests whose parsed replies had
\* a training loss, in the order read.
NoEmit == [kind |-> "none", sent |-> 0, recv |-> 0, reply |-> NoReply,
           result |-> "none", reissue |-> NoReissue, losses |-> <<>>]

\* Emitters whose fan-in loop looks at request_restart_iter.
ChecksRestart(kind) ==
  kind \in {"EmitStartNewIter", "EmitFindSplits", "EmitEvaluateSplits",
            "EmitShareSplits", "EmitEndIter"}

\* NumReplies with the fan-in loop of EmitEndIter one reply short.
NumReplies_OneLess(kind) ==
  CASE kind = "EmitEvaluateSplits" -> Cardinality(active_workers)
    [] kind = "EmitCreateCheckpoint" -> ckpt.num_shards
    [] kind = "EmitEndIter" -> config.num_workers - 1
    [] OTHER -> config.num_workers

\* NumReplies with the answer loop of EmitCreateCheckpoint one shard short.
NumReplies_OneShardLess(kind) ==
  CASE kind = "EmitEvaluateSplits" -> Cardinality(active_workers)
    [] kind = "EmitCreateCheckpoint" -> ckpt.num_shards - 1
    [] OTHER -> config.num_workers

\* Bound of the fan-in loop of an emitter.
NumReplies(kind) ==
  CASE kind = "EmitEvaluateSplits" -> Cardinality(active_workers)
    [] kind = "EmitCreateCheckpoint" -> ckpt.num_shards
    [] OTHER -> config.num_workers

\* SkipAsyncAnswers' argument after a restart-iter reply at index idx.
NumSkip(kind, idx) == NumReplies(kind) - idx - 1

InRunIteration(kind) ==
  kind \in {"EmitStartNewIter", "EmitFindSplits", "EmitEvaluateSplits",
            "EmitShareSplits", "EmitEndIter"}

\* Sets of k elements of S.
Pick(S, k) == {T \in SUBSET S : Cardinality(T) = k}

\* ------------------------------------------------------------ configuration
\* Checkpoint intervals: none, every n trees, or timed (one second).
CheckpointIntervals ==
  {<<-1, -1>>, <<-1, 1>>} \cup {<<n, -1>> : n \in 0 .. MaxTrees}

Configs ==
  {[num_workers |-> w, num_trees |-> t, max_depth |-> d,
    num_trees_per_iter |-> k,
    checkpoint_interval_trees |-> ci[1],
    checkpoint_interval_seconds |-> ci[2]] :
     w \in 1 .. MaxWorkers, t \in 1 .. MaxTrees, d \in 1 .. MaxDepth,
     k \in {1, MaxTreesPerIter}, ci \in CheckpointIntervals}

\* ------------------------------------------------------- feature ownership
\* Column indices a feature can have.
FeatureIdxs == 0 .. (MaxFeatures - 1)

\* An int64 count or score is held as two limbs <<hi, lo>> with
\* value = hi * 2^32 + lo and 0 <= lo < 2^32.
Int64(hi, lo) == <<hi, lo>>

\* value + (k << 32).
AddShifted(v, k) == Int64(v[1] + k, v[2])

Int64Greater(a, b) == a[1] > b[1] \/ (a[1] = b[1] /\ a[2] > b[2])

\* Columns of the dataset cache metadata: the type and the count the score
\* reads (num_unique_values, num_discretized_values, num_values).
Columns ==
  {[type |-> "boolean", count |-> Int64(0, 0)],
   [type |-> "categorical", count |-> Int64(0, 1)],
   [type |-> "categorical", count |-> Int64(0, 2)],
   [type |-> "categorical", count |-> Int64(1, 0)],
   [type |-> "discretized", count |-> Int64(0, 2)],
   [type |-> "numerical", count |-> Int64(0, 1)],
   [type |-> "not_set", count |-> Int64(0, 0)]}

\* The score of a column (lines 800-821); with TYPE_NOT_SET the variable is
\* read without having been written: `garbage`.
Score(col, garbage) ==
  CASE col.type = "numerical" -> AddShifted(col.count, 2)
    [] col.type = "discretized" -> AddShifted(col.count, 1)
    [] col.type = "categorical" -> AddShifted(col.count, 1)
    [] col.type = "boolean" -> Int64(0, 0)
    [] OTHER -> garbage

\* The scores lines 804-818 write for the typed columns of the list.
WrittenScores(feats, columns) ==
  {Score(columns[feats[i]], Int64(0, 0)) :
     i \in {j \in DOMAIN feats : columns[feats[j]].type # "not_set"}}

\* Values an uninitialized score can hold: any int64.  The sort compares the
\* scores only, so one value for every place that k unwritten scores can take
\* among the written ones stands for all of them: each written score itself
\* (the value the previous loop turn left on the stack, a tie that the feature
\* index decides), the k values that follow each written score (k distinct
\* values between two written scores wherever k integers lie between them,
\* and k above the greatest), and k values 2^32 or more below the least
\* written score.
Uninitialized(written, k) ==
  IF written = {} THEN {Int64(0, i) : i \in 1 .. k}
  ELSE LET least == CHOOSE a \in written :
                       \A b \in written : ~Int64Greater(a, b)
       IN  written
             \cup {Int64(a[1], a[2] + i) : a \in written, i \in 1 .. k}
             \cup {Int64(least[1] - 1, i) : i \in 1 .. k}

\* Greater as std::less<>: the ascending order.
Greater_Less(a, b) ==
  \/ Int64Greater(b.score, a.score)
  \/ a.score = b.score /\ b.feature > a.feature

\* std::greater<> on std::pair<int64_t, int>.
Greater(a, b) ==
  \/ Int64Greater(a.score, b.score)
  \/ a.score = b.score /\ a.feature > b.feature

\* FeatureAndScores leaving out the columns without a type.
FeatureAndScores_SkipNotSet(feats, columns, garbage) ==
  {[score |-> Score(columns[feats[i]], garbage[feats[i]]),
    feature |-> feats[i]] :
     i \in {j \in DOMAIN feats : columns[feats[j]].type # "not_set"}}

\* feature_and_scores (lines 797-822), its elements being distinct.
FeatureAndScores(feats, columns, garbage) ==
  {[score |-> Score(columns[feats[i]], garbage[feats[i]]),
    feature |-> feats[i]] : i \in DOMAIN feats}

\* std::sort(..., std::greater<>()).
RECURSIVE SortGreater(_)
SortGreater(S) ==
  IF S = {} THEN <<>>
  ELSE LET m == CHOOSE x \in S : \A y \in S \ {x} : Greater(x, y)
       IN  <<m>> \o SortGreater(S \ {m})

\* WorkerOfRank giving every feature to the first worker.
WorkerOfRank_First(cur, num_workers) == 0

\* (cur++) % num_workers, line 828.
WorkerOfRank(cur, num_workers) == cur % num_workers

\* The ownership with every list empty (lines 780-781).
EmptyOwnership(feats, num_workers) ==
  LET max_feature_idx ==
        Max({0} \cup {feats[i] : i \in DOMAIN feats})
  IN  [worker_to_feature |-> [w \in 0 .. (num_workers - 1) |-> <<>>],
       feature_to_worker |-> [f \in 0 .. max_feature_idx |-> <<>>]]

\* The loop of lines 826-831 from position cur on.
RECURSIVE RoundRobin(_, _, _, _)
RoundRobin(sorted, cur, num_workers, ownership) ==
  IF cur >= Len(sorted) THEN ownership
  ELSE LET worker_idx == WorkerOfRank(cur, num_workers)
           feature == sorted[cur + 1].feature
       IN  RoundRobin(sorted, cur + 1, num_workers,
             [ownership EXCEPT
                !.worker_to_feature[worker_idx] = Append(@, feature),
                !.feature_to_worker[feature] = Append(@, worker_idx)])

\* The replication branch (lines 784-795) from position i on.
RECURSIVE Replicate(_, _, _, _)
Replicate(feats, i, num_workers, ownership) ==
  IF i > Len(feats) THEN ownership
  ELSE Replicate(feats, i + 1, num_workers,
         [worker_to_feature |->
            [w \in 0 .. (num_workers - 1) |->
               Append(ownership.worker_to_feature[w], feats[i])],
          feature_to_worker |->
            [ownership.feature_to_worker EXCEPT ![feats[i]] = Append(@, 0)]])

\* AssignFeaturesToWorkers (lines 769-835).
AssignFeaturesToWorkers(duplicate, feats, num_workers, columns, garbage) ==
  IF duplicate
    THEN Replicate(feats, 1, num_workers, EmptyOwnership(feats, num_workers))
    ELSE RoundRobin(SortGreater(FeatureAndScores(feats, columns, garbage)),
                    0, num_workers, EmptyOwnership(feats, num_workers))

\* Lists of distinct features.
FeatureLists ==
  UNION {{q \in [1 .. n -> FeatureIdxs] :
            \A i, j \in 1 .. n : i # j => q[i] # q[j]} :
         n \in 0 .. MaxFeatures}

\* The training of the driver model has one boolean feature.
OneFeature ==
  /\ features = <<0>>
  /\ cache_metadata =
       [f \in FeatureIdxs |-> [type |-> "boolean", count |-> Int64(0, 0)]]
  /\ duplicate_computation_on_all_workers = FALSE
  /\ feature_ownership =
       AssignFeaturesToWorkers(FALSE, features, config.num_workers,
                               cache_metadata,
                               [f \in FeatureIdxs |-> Int64(0, 0)])

\* The deployments of a learner: cache_path and the working directory of the
\* distribute configuration, empty or not, and try_resume_training.
Deployments ==
  [cache_path : {"", "cache"}, working_directory : {"", "other"},
   try_resume_training : BOOLEAN]

\* JoinPath(work_directory, <random_device>_<micros>) of lines 144-146.
UniqueSubdirectory(path) == path \o "/unique"

\* Lines 141-147: the work directory TrainWithStatus resolves.
WorkDirectory(d) ==
  IF d.try_resume_training THEN d.cache_path
  ELSE UniqueSubdirectory(d.cache_path)

\* TrainWithStatus called TrainWithCache: an accepted deployment that resumes
\* in its cache path, the dataset cache created there.
Called ==
  /\ deployment = [cache_path |-> "cache", working_directory |-> "",
                   try_resume_training |-> TRUE]
  /\ work_directory = WorkDirectory(deployment)
  /\ dataset_cache = TRUE

\* State of a manager process at the entry of TrainWithCache's first emitter.
Fresh ==
  /\ pc = "EmitStartTraining" /\ phase = "call" /\ status = "none"
  /\ iter_idx = 0 /\ layer_idx = 0
  /\ model = EmptyModel /\ label_statistics = "unset"
  /\ last_checkpoint_idx = NotOk
  /\ minimum_iter_for_new_checkpoint = -1
  /\ iter_status = "none" /\ reply_idx = 0 /\ retries = 0
  /\ active_workers = {}
  /\ ckpt = [iter_idx |-> 0, num_shards |-> 0, ret |-> "none"]
  /\ resync = FALSE /\ current_stage = NoStage
  /\ pending = {} /\ emit = NoEmit /\ iter_trace = <<>>
  /\ in_iteration = FALSE /\ restored = -1
  /\ Called /\ Unobserved

Init ==
  /\ config \in Configs
  /\ Fresh
  /\ random = -1
  /\ rnd = -1
  /\ OneFeature
  /\ snapshots = {}
  /\ checkpoint_dir = [i \in 0 .. MaxTrees |-> EmptyDir]

\* ------------------------------------------------------- emitter machinery
\* Variables an emitter's continuation may set; a failing emitter leaves them.
contVars == <<iter_idx, model, label_statistics,
              minimum_iter_for_new_checkpoint, resync>>

\* Variables no broadcast emitter touches.
fanInVars == <<sampleVars, callVars, ownerVars, config, snapshots,
               checkpoint_dir, last_checkpoint_idx, retries, ckpt, restored>>

storeVars == <<fanInVars, training_evaluation>>

\* An emitter returns a non-ok status: RunIteration hands it to TrainWithCache
\* (ASSIGN_OR_RETURN / RETURN_IF_ERROR), outside of RunIteration TrainWithCache
\* returns it.
EmitterFails(kind, result) ==
  /\ phase' = "call"
  /\ in_iteration' = FALSE
  /\ layer_idx' = 0
  /\ active_workers' = {}
  /\ IF InRunIteration(kind)
       THEN pc' = "IterStatus" /\ iter_status' = result /\ status' = status
       ELSE pc' = "returned" /\ status' = result /\ iter_status' = iter_status

\* The send loop of emitter `kind`: BeginStage, then one asynchronous request
\* per element of reqs; `partials` are the sets sent before a failing send;
\* `targets` is the active-worker set the emitter computes (EmitEvaluateSplits),
\* with the other emitters the one at hand.
SendLoop(kind, reqs, partials, targets) ==
  /\ pc = kind /\ phase = "call"
  /\ current_stage' = BeginStage(current_stage, kind)
  /\ reply_idx' = 0
  /\ iter_trace' = IF kind = "EmitStartNewIter" THEN <<kind>>
                   ELSE IF InRunIteration(kind) THEN Append(iter_trace, kind)
                   ELSE iter_trace
  /\ random' = IF kind = "EmitStartNewIter" THEN Draw(random) ELSE random
  /\ \/ /\ pending' = pending \cup reqs
        /\ emit' = [kind |-> kind, sent |-> Cardinality(reqs), recv |-> 0,
                    reply |-> NoReply, result |-> "running",
                    reissue |-> NoReissue, losses |-> <<>>]
        /\ phase' = "recv"
        /\ in_iteration' = (in_iteration \/ kind = "EmitStartNewIter")
        /\ active_workers' = targets
        /\ UNCHANGED <<pc, status, iter_status, layer_idx>>
     \/ \E part \in partials :
          /\ pending' = pending \cup part
          /\ emit' = [kind |-> kind, sent |-> Cardinality(part), recv |-> 0,
                      reply |-> NoReply, result |-> "transport",
                    reissue |-> NoReissue, losses |-> <<>>]
          /\ EmitterFails(kind, "transport")
  /\ UNCHANGED <<contVars, storeVars>>

\* Requests of a broadcast to every worker, and what a failing send leaves.
Broadcast(kind) == {Request(kind, w, iter_idx) : w \in Workers}

BroadcastPartials(kind) ==
  {{Request(kind, w, iter_idx) : w \in 0 .. (j - 1)} : j \in Workers}

\* FanIn without the check of the reply's variant.
FanIn_AnyVariant(kind, r, rep) ==
  IF ~rep.ok THEN "transport"
  ELSE IF rep.restart /\ ChecksRestart(kind) THEN
    IF NumSkip(kind, reply_idx) > 0 THEN "skip" ELSE "data_loss"
  ELSE IF reply_idx + 1 >= NumReplies(kind) THEN "ok"
  ELSE "next"

\* One pass of the fan-in loop of emitter `kind` on the reply `rep` to request
\* r.  "next": the loop goes on; "ok": it was the last reply; "skip": a
\* restart-iter reply with answers left for SkipAsyncAnswers.
FanIn(kind, r, rep) ==
  IF ~rep.ok THEN "transport"
  ELSE IF rep.restart /\ ChecksRestart(kind) THEN
    IF NumSkip(kind, reply_idx) > 0 THEN "skip" ELSE "data_loss"
  ELSE IF ~rep.has THEN "internal"
  ELSE IF reply_idx + 1 >= NumReplies(kind) THEN "ok"
  ELSE "next"

\* SkipAsyncAnswers (lines 466-473), one turn of its loop: one more answer is
\* waited for and dropped unread; a failing wait is returned, after the last
\* answer the emitter returns the data-loss error.  While the answers are
\* skipped reply_idx counts the answers consumed, the restart-iter reply and
\* the skipped ones.
SkipAsyncAnswers(kind) ==
  \E r \in pending, ok \in BOOLEAN :
    LET result == IF ~ok THEN "transport"
                  ELSE IF reply_idx + 1 >= NumReplies(kind) THEN "data_loss"
                  ELSE "running"
    IN  /\ pending' = pending \ {r}
        /\ emit' = [emit EXCEPT !.recv = @ + 1, !.result = result]
        /\ IF result = "running"
             THEN /\ reply_idx' = reply_idx + 1
                  /\ UNCHANGED <<pc, phase, status, iter_status, in_iteration,
                                 active_workers, layer_idx>>
             ELSE /\ EmitterFails(kind, result)
                  /\ reply_idx' = 0
        /\ UNCHANGED <<current_stage, contVars, training_evaluation>>

\* The training loss and metrics in the EndIter result of a worker: those of
\* the model after the iteration of the request, as this worker computes them.
WorkerTrainingLoss(r) ==
  LET loss == 100 * (r.worker + 1) + r.id + 1
  IN  [loss |-> loss, metrics |-> <<loss>>]

\* Whether the result of a worker has a training loss: the worker decides;
\* only EndIter results have the field, and only the specifications that
\* observe the evaluation look at it.
HasTrainingLoss(kind) ==
  IF kind = "EmitEndIter" /\ training_evaluation # NoEvaluation
    THEN BOOLEAN ELSE {FALSE}

\* ParseReply copying the training loss of no reply.
ParseReply_NoLoss(kind, r, result, has_training_loss) == training_evaluation

\* EmitEndIter lines 1138-1149: a reply that is parsed (no transport error, no
\* restart, the end_iter variant) and has a training loss sets the evaluation.
\* The other emitters do not have the evaluation.
ParseReply(kind, r, result, has_training_loss) ==
  IF /\ kind = "EmitEndIter" /\ r.type = "EmitEndIter"
     /\ result \in {"next", "ok"}
     /\ has_training_loss
    THEN WorkerTrainingLoss(r)
    ELSE training_evaluation

\* The fan-in loop of emitter `kind`; OnOk is what follows its OK return.
FanInLoop(kind, OnOk) ==
  /\ pc = kind
  /\ \/ /\ phase = "recv"
        /\ \E r \in pending, rep \in Replies,
              has_training_loss \in HasTrainingLoss(kind) :
             LET result == FanIn(kind, r, rep)
                 parsed == result \in {"next", "ok"}
             IN
             /\ pending' = pending \ {r}
             /\ training_evaluation' =
                  ParseReply(kind, r, result, has_training_loss)
             /\ emit' = [emit EXCEPT
                           !.recv = @ + 1,
                           !.reply = rep,
                           !.losses = IF parsed /\ has_training_loss
                                        THEN Append(@, r) ELSE @,
                           !.result = IF result \in {"next", "skip"}
                                        THEN "running" ELSE result]
             /\ CASE result = "next" ->
                       /\ reply_idx' = reply_idx + 1
                       /\ UNCHANGED <<pc, phase, status, iter_status,
                                      in_iteration, current_stage, contVars,
                                      active_workers, layer_idx>>
                  [] result = "skip" ->
                       /\ reply_idx' = reply_idx + 1
                       /\ phase' = "skip"
                       /\ UNCHANGED <<pc, status, iter_status,
                                      in_iteration, current_stage, contVars,
                                      active_workers, layer_idx>>
                  [] result = "ok" ->
                       /\ reply_idx' = 0
                       /\ current_stage' = EndStage(current_stage, kind)
                       /\ phase' = "call"
                       /\ OnOk
                  [] OTHER ->
                       /\ EmitterFails(kind, result)
                       /\ reply_idx' = 0
                       /\ UNCHANGED <<current_stage, contVars>>
     \/ /\ phase = "skip"
        /\ SkipAsyncAnswers(kind)
  /\ UNCHANGED <<fanInVars, iter_trace, random, rnd>>

\* ------------------------------------------------------------ TrainWithCache
\* EmitStartTraining (TrainWithCache line 324).
EmitStartTraining ==
  /\ SendLoop("EmitStartTraining", Broadcast("EmitStartTraining"),
              BroadcastPartials("EmitStartTraining"),
              active_workers)
  /\ UNCHANGED rnd

StartTrainingReplies ==
  FanInLoop("EmitStartTraining",
            /\ pc' = "Initialize"
            /\ UNCHANGED <<status, iter_status, in_iteration, contVars,
                           active_workers, layer_idx>>)

\* RestoreManagerCheckpoint: the meta file and the model file of checkpoint c.
CanRestore(c) == checkpoint_dir[c].meta # {} /\ checkpoint_dir[c].model # {}

StoredMeta(c) == CHOOSE m \in checkpoint_dir[c].meta : TRUE

StoredModel(c) == CHOOSE m \in checkpoint_dir[c].model : TRUE

\* GetGreatestSnapshot that never finds a snapshot.
GetGreatestSnapshot_NotFound(snaps) == NotOk

\* GetGreatestSnapshot returning the least recorded index.
GetGreatestSnapshot_Least(snaps) ==
  IF snaps = {} THEN NotOk ELSE CHOOSE x \in snaps : \A y \in snaps : x <= y

\* utils::GetGreatestSnapshot on the snapshot directory.
GetGreatestSnapshot(snaps) == IF snaps = {} THEN NotOk ELSE Max(snaps)

\* TrainWithCache lines 326-355: restore the model from the latest snapshot, or
\* initialize a new one.
Initialize ==
  /\ pc = "Initialize"
  /\ LET c == GetGreatestSnapshot(snapshots) IN
     IF c # NotOk THEN
       /\ last_checkpoint_idx' = c
       /\ iter_idx' = c
       /\ minimum_iter_for_new_checkpoint' = c + 1
       /\ IF CanRestore(c)
            THEN /\ model' = StoredModel(c)
                 /\ label_statistics' = StoredMeta(c).label_statistics
                 /\ ckpt' = [ckpt EXCEPT !.iter_idx = c,
                                !.num_shards = StoredMeta(c).num_shards]
                 /\ pc' = "EmitRestoreCheckpoint"
                 /\ status' = status
            ELSE /\ pc' = "returned" /\ status' = "not_found"
                 /\ UNCHANGED <<model, label_statistics, ckpt>>
     ELSE
       /\ model' = EmptyModel
       /\ pc' = "EmitGetLabelStatistics"
       /\ UNCHANGED <<last_checkpoint_idx, iter_idx, status, ckpt,
                      minimum_iter_for_new_checkpoint, label_statistics>>
  /\ UNCHANGED <<random, rnd, iterVars, callVars, ownerVars, config, snapshots, checkpoint_dir, retries, restored,
                 phase, layer_idx, iter_status, reply_idx, active_workers,
                 resync, current_stage, pending, iter_trace,
                 in_iteration>>
  /\ emit' = NoEmit

\* The RestoreCheckpoint request of EmitRestoreCheckpoint (lines 1162-1166) with
\* the arguments of the calls of lines 347-349 and 430-432: the restored index,
\* the shard count of the checkpoint's meta and the restored model's
\* num_trees_per_iter.
RestoreCheckpointRequest(w) ==
  [type |-> "EmitRestoreCheckpoint", worker |-> w, id |-> ckpt.iter_idx,
   iter_idx |-> ckpt.iter_idx, num_shards |-> ckpt.num_shards,
   num_weak_models |-> model.num_trees_per_iter]

\* EmitRestoreCheckpoint: broadcast, the fan-in loop does not look at
\* request_restart_iter.
EmitRestoreCheckpoint ==
  /\ SendLoop("EmitRestoreCheckpoint",
              {RestoreCheckpointRequest(w) : w \in Workers},
              {{RestoreCheckpointRequest(w) : w \in 0 .. (j - 1)} :
                   j \in Workers},
              active_workers)
  /\ UNCHANGED rnd

\* AfterResync without the decrement of line 438: the loop's increment skips
\* the restored iteration.
AfterResync_NoDecrement(i) == i + 1

\* After a data-loss (lines 436-438 and the loop's increment): the iteration
\* restarts at the restored index.
AfterResync(i) == (i - 1) + 1

RestoreCheckpointReplies ==
  FanInLoop("EmitRestoreCheckpoint",
            /\ pc' = "LoopHead"
            /\ resync' = FALSE
            /\ IF resync
                 THEN /\ minimum_iter_for_new_checkpoint' = iter_idx + 1
                      /\ iter_idx' = AfterResync(iter_idx)
                 ELSE UNCHANGED <<minimum_iter_for_new_checkpoint, iter_idx>>
            /\ UNCHANGED <<status, iter_status, in_iteration, layer_idx,
                           model, label_statistics, active_workers>>)

\* EmitGetLabelStatistics (lines 837-846): BeginStage, then BlockingProtoRequest
\* sends one request to a worker the manager selects and waits for its answer.
EmitGetLabelStatistics ==
  /\ pc = "EmitGetLabelStatistics" /\ phase = "call"
  /\ current_stage' = BeginStage(current_stage, "EmitGetLabelStatistics")
  /\ \E w \in Workers :
       pending' = pending \cup {Request("EmitGetLabelStatistics", w, 0)}
  /\ emit' = [kind |-> "EmitGetLabelStatistics", sent |-> 1, recv |-> 0,
              reply |-> NoReply, result |-> "running",
              reissue |-> NoReissue, losses |-> <<>>]
  /\ phase' = "recv"
  /\ UNCHANGED <<storeVars, contVars, random, rnd, pc, status, layer_idx,
                 iter_status, reply_idx, active_workers, iter_trace,
                 in_iteration>>

\* The answer of the blocking request (lines 846-854): a failing request and
\* an answer of another variant are returned with the stage left open; then
\* lines 368-371 set the initial predictions and num_trees_per_iter.
GetLabelStatisticsReply ==
  /\ pc = "EmitGetLabelStatistics" /\ phase = "recv"
  /\ \E r \in {q \in pending : q.type = "EmitGetLabelStatistics"},
        rep \in Replies :
       /\ pending' = pending \ {r}
       /\ emit' = [emit EXCEPT
                     !.recv = 1, !.reply = rep,
                     !.result = IF ~rep.ok THEN "transport"
                                ELSE IF ~rep.has THEN "internal" ELSE "ok"]
       /\ IF rep.ok /\ rep.has
            THEN /\ current_stage' =
                      EndStage(current_stage, "EmitGetLabelStatistics")
                 /\ label_statistics' = "dataset"
                 /\ model' = [model EXCEPT
                       !.num_trees_per_iter = config.num_trees_per_iter]
                 /\ pc' = "EmitSetInitialPredictions"
                 /\ status' = status
            ELSE /\ pc' = "returned"
                 /\ status' = (IF rep.ok THEN "internal" ELSE "transport")
                 /\ UNCHANGED <<current_stage, label_statistics, model>>
  /\ phase' = "call"
  /\ UNCHANGED <<storeVars, random, rnd, iter_idx, layer_idx,
                 minimum_iter_for_new_checkpoint, iter_status, reply_idx,
                 active_workers, resync, iter_trace, in_iteration>>

\* EmitSetInitialPredictions: broadcast, the fan-in loop does not look at
\* request_restart_iter.
EmitSetInitialPredictions ==
  /\ SendLoop("EmitSetInitialPredictions",
              Broadcast("EmitSetInitialPredictions"),
              BroadcastPartials("EmitSetInitialPredictions"),
              active_workers)
  /\ UNCHANGED rnd

SetInitialPredictionsReplies ==
  FanInLoop("EmitSetInitialPredictions",
            /\ pc' = "LoopHead"
            /\ UNCHANGED <<status, iter_status, in_iteration, contVars,
                           active_workers, layer_idx>>)

\* ShouldCreateCheckpoint answering true at every iteration.
ShouldCreateCheckpoint_Every(i, elapsed) == {"true"}

\* ShouldCreateCheckpoint: the outcomes of a call; `elapsed` tells whether the
\* time since the last checkpoint has reached checkpoint_interval_seconds.
\* With checkpoint_interval_trees = 0 line 723 evaluates iter_idx % 0, an
\* integer remainder by zero: the behaviour is undefined, the process traps
\* ("crash") or the call returns either value.
ShouldCreateCheckpoint(i, elapsed) ==
  IF config.checkpoint_interval_trees = 0 THEN {"crash", "true", "false"}
  ELSE IF \/ /\ config.checkpoint_interval_trees > 0
             /\ i % config.checkpoint_interval_trees = 0
          \/ /\ config.checkpoint_interval_seconds >= 0
             /\ elapsed
    THEN {"true"} ELSE {"false"}

\* NewerThanLastCheckpoint without the comparison to the last checkpoint.
NewerThanLastCheckpoint_Always(i) == TRUE

\* The guard of line 395 and of line 444.
NewerThanLastCheckpoint(i) ==
  last_checkpoint_idx = NotOk \/ i > last_checkpoint_idx

\* std::max(1, NumWorkers / 4) of CreateCheckpoint.
NumShards(w) == IF w \div 4 > 1 THEN w \div 4 ELSE 1

\* Head of the training loop (lines 391-401): leave the loop, create a
\* checkpoint first, or run the iteration.
LoopHead ==
  /\ pc = "LoopHead"
  /\ IF iter_idx < config.num_trees
       THEN \E elapsed \in BOOLEAN :
            \E should \in (IF iter_idx >= minimum_iter_for_new_checkpoint
                             THEN ShouldCreateCheckpoint(iter_idx, elapsed)
                             ELSE {"false"}) :
              IF should = "crash"
                THEN /\ pc' = "crashed"
                     /\ UNCHANGED <<last_checkpoint_idx, ckpt>>
              ELSE IF /\ should = "true"
                      /\ NewerThanLastCheckpoint(iter_idx)
                THEN /\ last_checkpoint_idx' = iter_idx
                     /\ ckpt' = [iter_idx |-> iter_idx,
                                 num_shards |-> NumShards(config.num_workers),
                                 ret |-> "EmitStartNewIter"]
                     /\ pc' = "CreateCheckpoint"
                ELSE /\ pc' = "EmitStartNewIter"
                     /\ UNCHANGED <<last_checkpoint_idx, ckpt>>
       ELSE /\ pc' = "FinalCheckpoint"
            /\ UNCHANGED <<last_checkpoint_idx, ckpt>>
  /\ UNCHANGED <<random, rnd, iterVars, callVars, ownerVars, config, snapshots, checkpoint_dir, retries, restored,
                 phase, status, layer_idx, contVars, iter_status, reply_idx,
                 active_workers, current_stage, pending, iter_trace,
                 in_iteration>>
  /\ emit' = NoEmit

\* FinalCheckpoint that never writes the final checkpoint.
FinalCheckpoint_Skip ==
  /\ pc = "FinalCheckpoint"
  /\ pc' = "Done"
  /\ UNCHANGED <<random, rnd, iterVars, callVars, ownerVars, config, snapshots, checkpoint_dir, retries, restored,
                 last_checkpoint_idx, ckpt, phase, status, layer_idx, contVars,
                 iter_status, reply_idx, active_workers, current_stage, pending,
                 emit, iter_trace, in_iteration>>

\* After the loop (lines 444-449): the final checkpoint.
FinalCheckpoint ==
  /\ pc = "FinalCheckpoint"
  /\ IF NewerThanLastCheckpoint(iter_idx)
       THEN /\ ckpt' = [iter_idx |-> iter_idx,
                        num_shards |-> NumShards(config.num_workers),
                        ret |-> "Done"]
            /\ pc' = "CreateCheckpoint"
       ELSE /\ pc' = "Done"
            /\ ckpt' = ckpt
  /\ UNCHANGED <<random, rnd, iterVars, callVars, ownerVars, config, snapshots, checkpoint_dir, retries, restored,
                 last_checkpoint_idx, phase, status, layer_idx, contVars, iter_status,
                 reply_idx, active_workers, current_stage, pending, emit,
                 iter_trace, in_iteration>>

\* distribute_manager->Done() and the return of the model (lines 462-464).
Done ==
  /\ pc = "Done"
  /\ pc' = "returned"
  /\ \E ok \in BOOLEAN : status' = IF ok THEN "ok" ELSE "transport"
  /\ UNCHANGED <<random, rnd, iterVars, callVars, ownerVars, config, snapshots, checkpoint_dir, retries, restored,
                 last_checkpoint_idx, ckpt, phase, layer_idx, contVars, iter_status,
                 reply_idx, active_workers, current_stage, pending, emit,
                 iter_trace, in_iteration>>

\* ---------------------------------------------------------- CreateCheckpoint
\* CreateCheckpoint lines 664-680: open the stage, create the directory and save
\* the model.
CreateCheckpoint ==
  /\ pc = "CreateCheckpoint"
  /\ current_stage' = BeginStage(current_stage, "CreateCheckpoint")
  /\ checkpoint_dir' = [checkpoint_dir EXCEPT ![ckpt.iter_idx].model = {model}]
  /\ pc' = "EmitCreateCheckpoint"
  /\ UNCHANGED <<random, rnd, iterVars, callVars, ownerVars, config, snapshots, retries, restored,
                 last_checkpoint_idx, ckpt, phase, status, layer_idx, contVars,
                 iter_status, reply_idx, active_workers, pending, emit,
                 iter_trace, in_iteration>>

\* MaxRetries with a budget of four reissues per shard.
MaxRetries_FourPerShard(num_shards) == 4 * num_shards

\* max_retries of EmitCreateCheckpoint.
MaxRetries(num_shards) == 3 * num_shards

\* The worker a shard request is reissued to, taken as the replying worker.
NewWorkerIdx_Same(w) == w % config.num_workers

\* The worker a shard request is reissued to.
NewWorkerIdx(w) == (w + 1) % config.num_workers

\* shard_idx_to_example_idx_range, lines 1199-1205.
shard_idx_to_example_idx_range(shard_idx, num_examples, num_shards) ==
  LET num_example_per_shard == (num_examples + num_shards - 1) \div num_shards
      upper == (shard_idx + 1) * num_example_per_shard
  IN  <<shard_idx * num_example_per_shard,
        IF num_examples < upper THEN num_examples ELSE upper>>

\* A CreateCheckpoint request: the generic request_id, and the payload with the
\* shard index and the example range of the shard range_shard_idx.
CreateCheckpointRequest(worker, request_id, range_shard_idx) ==
  LET example_range ==
        shard_idx_to_example_idx_range(range_shard_idx, dataset_num_examples,
                                       ckpt.num_shards)
  IN  [type |-> "EmitCreateCheckpoint", worker |-> worker, id |-> request_id,
       shard_idx |-> request_id,
       begin_example_idx |-> example_range[1],
       end_example_idx |-> example_range[2]]

\* create_checkpoint().shard_idx() of a reply to request r: the shard index the
\* worker answers for, 0 (the field's default) when the reply has no
\* create_checkpoint payload.
ReplyShardIdx(r, rep) == IF rep.has THEN r.shard_idx ELSE 0

\* ShardFilename("predictions", shard_idx, num_shards): the name of a shard
\* file holds the shard index and the number of shards.
ShardFilename(shard_idx, num_shards) == <<shard_idx, num_shards>>

\* EmitCreateCheckpoint lines 1195-1216: one request per shard, not bound to a
\* worker (worker -1); request_id is the shard index.
EmitCreateCheckpoint ==
  /\ pc = "EmitCreateCheckpoint" /\ phase = "call"
  /\ retries' = 0
  /\ reply_idx' = 0
  /\ \/ /\ pending' = pending \cup
             {CreateCheckpointRequest(-1, s, s) :
                s \in 0 .. (ckpt.num_shards - 1)}
        /\ emit' = [kind |-> "EmitCreateCheckpoint", sent |-> ckpt.num_shards,
                    recv |-> 0, reply |-> NoReply, result |-> "running",
                    reissue |-> NoReissue, losses |-> <<>>]
        /\ phase' = "recv"
        /\ UNCHANGED <<pc, status>>
     \/ \E j \in 0 .. (ckpt.num_shards - 1) :
          /\ pending' = pending \cup
               {CreateCheckpointRequest(-1, s, s) : s \in 0 .. (j - 1)}
          /\ emit' = [kind |-> "EmitCreateCheckpoint", sent |-> j,
                      recv |-> 0, reply |-> NoReply, result |-> "transport",
                    reissue |-> NoReissue, losses |-> <<>>]
          /\ pc' = "returned" /\ status' = "transport"
          /\ phase' = phase
  /\ UNCHANGED <<random, rnd, iterVars, callVars, ownerVars, config, snapshots, checkpoint_dir, restored,
                 last_checkpoint_idx, ckpt, layer_idx, contVars, iter_status,
                 active_workers, current_stage, iter_trace, in_iteration>>

\* EmitCreateCheckpoint lines 1221-1271: one pass of the answer loop.
CreateCheckpointReplies ==
  /\ pc = "EmitCreateCheckpoint" /\ phase = "recv"
  /\ \E r \in pending, rep \in Replies :
     \E w \in (IF r.worker = -1 THEN Workers ELSE {r.worker}) :
       IF ~rep.ok THEN
         /\ pending' = pending \ {r}
         /\ emit' = [emit EXCEPT !.recv = @ + 1, !.reply = rep,
                                 !.reissue = NoReissue,
                                 !.result = "transport"]
         /\ pc' = "returned" /\ status' = "transport" /\ phase' = "call"
         /\ UNCHANGED <<retries, reply_idx, checkpoint_dir>>
       ELSE IF rep.restart THEN
         /\ retries' = retries + 1
         /\ IF retries + 1 > MaxRetries(ckpt.num_shards)
              THEN /\ pending' = pending \ {r}
                   /\ emit' = [emit EXCEPT !.recv = @ + 1, !.reply = rep,
                                 !.reissue = NoReissue,
                                           !.result = "data_loss"]
                   /\ pc' = "returned" /\ status' = "data_loss"
                   /\ phase' = "call"
              ELSE \/ /\ pending' = (pending \ {r}) \cup
                           {CreateCheckpointRequest(NewWorkerIdx(w), r.id,
                                                    ReplyShardIdx(r, rep))}
                      /\ emit' = [emit EXCEPT
                                    !.recv = @ + 1, !.sent = @ + 1,
                                    !.reply = rep,
                                    !.reissue =
                                       [from |-> w,
                                        request |->
                                          CreateCheckpointRequest(
                                            NewWorkerIdx(w), r.id,
                                            ReplyShardIdx(r, rep))]]
                      /\ UNCHANGED <<pc, status, phase>>
                   \/ /\ pending' = pending \ {r}
                      /\ emit' = [emit EXCEPT !.recv = @ + 1, !.reply = rep,
                                 !.reissue = NoReissue,
                                              !.result = "transport"]
                      /\ pc' = "returned" /\ status' = "transport"
                      /\ phase' = "call"
         /\ UNCHANGED <<reply_idx, checkpoint_dir>>
       ELSE IF ~rep.has THEN
         /\ pending' = pending \ {r}
         /\ emit' = [emit EXCEPT !.recv = @ + 1, !.reply = rep,
                                 !.reissue = NoReissue,
                                 !.result = "internal"]
         /\ pc' = "returned" /\ status' = "internal" /\ phase' = "call"
         /\ UNCHANGED <<retries, reply_idx, checkpoint_dir>>
       ELSE
         /\ pending' = pending \ {r}
         /\ checkpoint_dir' =
              [checkpoint_dir EXCEPT
                 ![ckpt.iter_idx].shards =
                    @ \cup {ShardFilename(r.id, ckpt.num_shards)}]
         /\ IF reply_idx + 1 >= NumReplies("EmitCreateCheckpoint")
              THEN /\ pc' = "SetBinaryProto" /\ phase' = "call"
                   /\ reply_idx' = 0 /\ retries' = 0
                   /\ emit' = [emit EXCEPT !.recv = @ + 1, !.reply = rep,
                                 !.reissue = NoReissue,
                                           !.result = "ok"]
              ELSE /\ reply_idx' = reply_idx + 1
                   /\ emit' = [emit EXCEPT !.recv = @ + 1, !.reply = rep,
                                           !.reissue = NoReissue]
                   /\ UNCHANGED <<pc, phase, retries>>
         /\ status' = status
  /\ UNCHANGED <<random, rnd, iterVars, callVars, ownerVars, config, snapshots, restored, last_checkpoint_idx, ckpt,
                 layer_idx, contVars, iter_status, active_workers, current_stage,
                 iter_trace, in_iteration>>

\* CreateCheckpoint lines 687-689: the checkpoint meta file.
SetBinaryProto ==
  /\ pc = "SetBinaryProto"
  /\ checkpoint_dir' =
       [checkpoint_dir EXCEPT ![ckpt.iter_idx].meta =
          {[label_statistics |-> label_statistics,
            num_shards |-> ckpt.num_shards]}]
  /\ pc' = "AddSnapshot"
  /\ UNCHANGED <<random, rnd, iterVars, callVars, ownerVars, config, snapshots, retries, restored,
                 last_checkpoint_idx, ckpt, phase, status, layer_idx, contVars,
                 iter_status, reply_idx, active_workers, current_stage,
                 pending, emit, iter_trace, in_iteration>>

\* CreateCheckpoint lines 691-698: record the snapshot, close the stage, return.
AddSnapshot ==
  /\ pc = "AddSnapshot"
  /\ snapshots' = snapshots \cup {ckpt.iter_idx}
  /\ current_stage' = EndStage(current_stage, "CreateCheckpoint")
  /\ pc' = ckpt.ret
  /\ UNCHANGED <<random, rnd, iterVars, callVars, ownerVars, config, checkpoint_dir, retries, restored,
                 last_checkpoint_idx, ckpt, phase, status, layer_idx, contVars,
                 iter_status, reply_idx, active_workers, pending, emit,
                 iter_trace, in_iteration>>

\* -------------------------------------------------------------- RunIteration
\* DepthLoop with the checkpoint created inside RunIteration, after the layers.
DepthLoop_CheckpointInside(l) ==
  IF l < config.max_depth - 1 THEN "EmitFindSplits" ELSE "CreateCheckpoint"

\* The emitter the depth loop of RunIteration (lines 528-530) reaches at layer l.
DepthLoop(l) ==
  IF l < config.max_depth - 1 THEN "EmitFindSplits" ELSE "EmitEndIter"

\* The StartNewIter request (lines 894-898) of RunIteration(iter_idx): the seed
\* is the value of the call of random() in line 510.
StartNewIterRequest(w) ==
  [type |-> "EmitStartNewIter", worker |-> w, id |-> iter_idx,
   iter_idx |-> iter_idx, seed |-> Seed(random)]

\* EmitStartNewIter: first emitter of RunIteration(iter_idx).
EmitStartNewIter ==
  /\ SendLoop("EmitStartNewIter",
              {StartNewIterRequest(w) : w \in Workers},
              {{StartNewIterRequest(w) : w \in 0 .. (j - 1)} : j \in Workers},
              active_workers)
  /\ UNCHANGED rnd

\* Lines 512-528: the weak models are built, the depth loop starts.
StartNewIterReplies ==
  FanInLoop("EmitStartNewIter",
            /\ layer_idx' = 0
            /\ pc' = DepthLoop(0)
            /\ UNCHANGED <<status, iter_status, in_iteration, contVars,
                           active_workers>>)

\* An emitter of RunIteration returns an error after BeginStage and before
\* its first request.
FailsBeforeSend(kind, result) ==
  /\ pc = kind /\ phase = "call"
  /\ current_stage' = BeginStage(current_stage, kind)
  /\ reply_idx' = 0
  /\ iter_trace' = Append(iter_trace, kind)
  /\ emit' = [kind |-> kind, sent |-> 0, recv |-> 0, reply |-> NoReply,
              result |-> result, reissue |-> NoReissue, losses |-> <<>>]
  /\ EmitterFails(kind, result)
  /\ UNCHANGED <<contVars, storeVars, pending, random>>

\* SelectOwnerWorker (lines 1394-1406): the workers it may return for
\* `feature`, one of the candidates drawn with rnd; none stands for the
\* internal error.
SelectOwnerWorker(ownership, feature) ==
  Range(ownership.feature_to_worker[feature])

\* SelectOwnerWorker lines 1402-1404: with more than one candidate the engine
\* is handed to a uniform_int_distribution.
DrawsOwner(ownership, feature) ==
  Len(ownership.feature_to_worker[feature]) > 1

\* Lists of n distinct elements of list q.
Arrangements(q, n) ==
  {a \in [1 .. n -> Range(q)] : \A i, j \in 1 .. n : i # j => a[i] # a[j]}

\* SampleFeatures always returning the whole list.
SampleFeatures_All(feats, n) ==
  {[status |-> "ok", sample |-> feats, uses |-> 0]}

\* SampleFeatures (lines 1372-1392): its possible results, one for each outcome
\* of std::shuffle; `uses` is 1 when the engine was handed to std::shuffle.
SampleFeatures(feats, n) ==
  IF n > Len(feats) THEN {[status |-> "internal", sample |-> <<>>, uses |-> 0]}
  ELSE IF n = Len(feats) THEN {[status |-> "ok", sample |-> feats, uses |-> 0]}
  ELSE {[status |-> "ok", sample |-> a, uses |-> 1] :
          a \in Arrangements(feats, n)}

\* SampleInputFeatures lines 1318-1329: how many features to select for each
\* split; the ceiling of ratio * size with the ratio num / den.
NumSampledFeatures(dt, feats) ==
  IF dt.num_candidate_attributes > 0 THEN dt.num_candidate_attributes
  ELSE IF dt.num_candidate_attributes_ratio[1] > 0
    THEN (dt.num_candidate_attributes_ratio[1] * Len(feats)
            + dt.num_candidate_attributes_ratio[2] - 1)
         \div dt.num_candidate_attributes_ratio[2]
    ELSE Len(feats)

\* The <<weak model, open node>> positions (counted from 1).
OpenNodes(wm) ==
  UNION {{<<k, n>> : n \in 1 .. wm[k]} : k \in DOMAIN wm}

\* Position a is before position b in the order of the nested loops
\* (positions are tuples of loop counters of one length).
Precedes(a, b) ==
  \E i \in DOMAIN a :
     /\ a[i] < b[i]
     /\ \A j \in 1 .. (i - 1) : a[j] = b[j]

\* SampleInputFeatures sending every sampled feature to worker 0.
SampleInputFeatures_FirstWorker(dt, num_workers, feats, ownership, wm, dup) ==
  {[status |-> "ok",
    samples |-> [w \in 0 .. (num_workers - 1) |->
                   [k \in DOMAIN wm |->
                      [n \in 1 .. wm[k] |->
                         IF w = 0 THEN feats ELSE <<>>]]],
    uses |-> 0]}

\* SampleInputFeatures (lines 1315-1370): its possible results, samples[w][k][n]
\* the features of worker w for open node n of weak model k, or the internal
\* error of SampleFeatures or of SelectOwnerWorker; `uses` counts the uses of
\* the engine up to the return: one per open node that SampleFeatures
\* shuffles, one per sampled feature whose owner is drawn.
SampleInputFeatures(dt, num_workers, feats, ownership, wm, dup) ==
  LET num == NumSampledFeatures(dt, feats)
      drawn == SampleFeatures(feats, num)
      nodes == OpenNodes(wm)
      owners(f) == IF SelectOwnerWorker(ownership, f) = {} THEN {-1}
                   ELSE SelectOwnerWorker(ownership, f)
      choices == {o \in [Range(feats) -> -1 .. (num_workers - 1)] :
                    \A f \in Range(feats) : o[f] \in owners(f)}
      selects(smp) ==
        IF dup THEN {}
        ELSE UNION {{<<p[1], p[2], i>> : i \in DOMAIN smp[p].sample} :
                      p \in nodes}
      feature(smp, q) == smp[<<q[1], q[2]>>].sample[q[3]]
      unowned(smp, own) ==
        {q \in selects(smp) : own[<<q[1], q[2]>>][feature(smp, q)] = -1}
      uses(smp, own) ==
        LET reached(q) == \A u \in unowned(smp, own) : Precedes(q, u)
        IN  Cardinality({p \in nodes :
                           /\ smp[p].uses = 1
                           /\ \A u \in unowned(smp, own) :
                                 ~Precedes(<<u[1], u[2]>>, p)})
              + Cardinality({q \in selects(smp) :
                               /\ DrawsOwner(ownership, feature(smp, q))
                               /\ reached(q)})
      result(smp, own) ==
        IF unowned(smp, own) # {}
          THEN [status |-> "internal", samples |-> <<>>,
                uses |-> uses(smp, own)]
          ELSE [status |-> "ok",
                samples |->
                  [w \in 0 .. (num_workers - 1) |->
                     [k \in DOMAIN wm |->
                        [n \in 1 .. wm[k] |->
                           IF dup THEN smp[<<k, n>>].sample
                           ELSE SelectSeq(smp[<<k, n>>].sample,
                                          LAMBDA f : own[<<k, n>>][f] = w)]]],
                uses |-> uses(smp, own)]
  IN  IF nodes # {} /\ num > Len(feats)
        THEN {[status |-> "internal", samples |-> <<>>, uses |-> 0]}
        ELSE {result(smp, own) :
                smp \in [nodes -> drawn],
                own \in [nodes -> choices]}

\* What SampleInputFeatures may return at the call of line 942.  Where the
\* open nodes are not observed the features of the requests are not either.
SampledInputFeatures ==
  IF weak_models = <<>>
    THEN {[status |-> "ok", samples |-> [w \in Workers |-> <<>>],
           uses |-> 0]}
    ELSE SampleInputFeatures(dt_config, config.num_workers, features,
                             feature_ownership, weak_models,
                             duplicate_computation_on_all_workers)

\* The FindSplits request to worker w (ExactSampledFeaturesForWorker, lines
\* 1408-1434): the sampled features of the worker per weak model and open node.
FindSplitsRequest(w, samples) ==
  [type |-> "EmitFindSplits", worker |-> w, id |-> iter_idx,
   features_per_weak_models |-> samples[w]]

\* EmitFindSplits: SampleInputFeatures, then one request to every worker.  When
\* the sampling fails the emitter returns its error with the stage open and
\* nothing sent.
EmitFindSplits ==
  /\ pc = "EmitFindSplits" /\ phase = "call"
  /\ \E o \in SampledInputFeatures :
       /\ rnd' = Use(rnd, o.uses)
       /\ IF o.status = "ok" THEN
            SendLoop("EmitFindSplits",
                     {FindSplitsRequest(w, o.samples) : w \in Workers},
                     {{FindSplitsRequest(w, o.samples) : w \in 0 .. (j - 1)} :
                         j \in Workers},
                     active_workers)
          ELSE FailsBeforeSend("EmitFindSplits", o.status)

\* AfterFindSplits going to ShareSplits without evaluating the splits.
AfterFindSplits_SkipEvaluate(has_open_node) ==
  IF has_open_node THEN "EmitShareSplits" ELSE "EmitEndIter"

\* AfterFindSplits returning from RunIteration, without EndIter, when no split
\* is valid.
AfterFindSplits_SkipEndIter(has_open_node) ==
  IF has_open_node THEN "EmitEvaluateSplits" ELSE "IterStatus"

\* The emitter that follows FindSplits (lines 536-562): without any valid split
\* the depth loop is left.
AfterFindSplits(has_open_node) ==
  IF has_open_node THEN "EmitEvaluateSplits" ELSE "EmitEndIter"

\* Whether the merged splits hold a valid split depends on the workers' replies.
FindSplitsReplies ==
  FanInLoop("EmitFindSplits",
            /\ \E has_open_node \in BOOLEAN :
                 pc' = AfterFindSplits(has_open_node)
            /\ UNCHANGED <<status, iter_status, in_iteration, contVars,
                           active_workers, layer_idx>>)

\* The valid splits of the merged splits, as <<weak model, split>> positions
\* (counted from 1; the split indices of the code are counted from 0).
ValidSplits(splits) ==
  {v \in UNION {{<<k, i>> : i \in DOMAIN splits[k]} : k \in DOMAIN splits} :
     splits[v[1]][v[2]].valid}

\* The split indices BuildActiveWorkers pushes for worker w and weak model k,
\* in increasing order, when `owner` is what SelectOwnerWorker returned for
\* each valid split.
EvalSplits(splits, owner, w, k) ==
  SelectSeq([i \in DOMAIN splits[k] |-> i - 1],
            LAMBDA idx : /\ <<k, idx + 1>> \in DOMAIN owner
                         /\ owner[<<k, idx + 1>>] = w)

\* BuildActiveWorkers giving every valid split to worker 0.
BuildActiveWorkers_FirstWorker(splits, ownership) ==
  {[status |-> "ok",
    map |-> [w \in {0} |->
               [k \in DOMAIN splits |->
                  EvalSplits(splits,
                             [v \in ValidSplits(splits) |-> 0], w, k)]],
    uses |-> 0]}

\* BuildActiveWorkers (lines 1436-1461): the maps worker -> weak model -> split
\* indices it may return, one for each outcome of the draws of
\* SelectOwnerWorker, or its internal error when a valid split's feature has
\* no owner; `uses` counts the owners drawn with the engine up to the return.
BuildActiveWorkers(splits, ownership) ==
  LET valid == ValidSplits(splits)
      attribute(v) == splits[v[1]][v[2]].attribute
      unowned == {v \in valid :
                    SelectOwnerWorker(ownership, attribute(v)) = {}}
      uses == Cardinality({v \in valid :
                             /\ DrawsOwner(ownership, attribute(v))
                             /\ \A u \in unowned : Precedes(v, u)})
  IN  IF unowned # {}
        THEN {[status |-> "internal", map |-> <<>>, uses |-> uses]}
        ELSE {[status |-> "ok",
               map |-> [w \in {owner[v] : v \in valid} |->
                          [k \in DOMAIN splits |->
                             EvalSplits(splits, owner, w, k)]],
               uses |-> uses] :
                owner \in {o \in [valid -> Workers] :
                             \A v \in valid :
                                o[v] \in SelectOwnerWorker(ownership,
                                                           attribute(v))}}

\* What BuildActiveWorkers may return at the call of line 1019.  Where the
\* splits are not observed: any non-empty set of workers, the owners of the
\* valid splits of some merged splits under some ownership.
ActiveWorkerMaps ==
  IF splits_per_weak_models = <<>>
    THEN {[status |-> "ok", map |-> [w \in aw |-> <<>>], uses |-> 0] :
             aw \in (SUBSET Workers) \ {{}}}
    ELSE BuildActiveWorkers(splits_per_weak_models, feature_ownership)

\* The EvaluateSplits request to an active worker (lines 1029-1042): its split
\* indices per weak model.
EvaluateSplitsRequest(w, map) ==
  [type |-> "EmitEvaluateSplits", worker |-> w, id |-> iter_idx,
   split_per_weak_model |-> map[w]]

\* EmitEvaluateSplits: BuildActiveWorkers, then one request to each active
\* worker, in the unspecified order of the hash map.  When BuildActiveWorkers
\* fails the emitter returns its error with the stage open and nothing sent.
EmitEvaluateSplits ==
  /\ pc = "EmitEvaluateSplits" /\ phase = "call"
  /\ \E b \in ActiveWorkerMaps :
       /\ rnd' = Use(rnd, b.uses)
       /\ IF b.status = "ok" THEN
            SendLoop("EmitEvaluateSplits",
                     {EvaluateSplitsRequest(w, b.map) : w \in DOMAIN b.map},
                     {{EvaluateSplitsRequest(w, b.map) : w \in part} :
                         part \in (SUBSET DOMAIN b.map) \ {DOMAIN b.map}},
                     DOMAIN b.map)
          ELSE FailsBeforeSend("EmitEvaluateSplits", b.status)

EvaluateSplitsReplies ==
  FanInLoop("EmitEvaluateSplits",
            /\ pc' = "EmitShareSplits"
            /\ UNCHANGED <<status, iter_status, in_iteration, contVars,
                           active_workers, layer_idx>>)

\* The ShareSplits request (lines 1069-1076): the same for every worker, with
\* the active workers EmitEvaluateSplits returned (as a set: the list has the
\* order of the hash map).  Where the splits are not observed the payload of
\* the request is not observed either.
ShareSplitsRequest(w) ==
  [type |-> "EmitShareSplits", worker |-> w, id |-> iter_idx,
   active_workers |-> IF splits_per_weak_models = <<>> THEN {}
                      ELSE active_workers]

EmitShareSplits ==
  /\ SendLoop("EmitShareSplits",
              {ShareSplitsRequest(w) : w \in Workers},
              {{ShareSplitsRequest(w) : w \in 0 .. (j - 1)} : j \in Workers},
              active_workers)
  /\ UNCHANGED rnd

\* End of a layer (line 530): next layer or EndIter.
ShareSplitsReplies ==
  FanInLoop("EmitShareSplits",
            /\ layer_idx' = layer_idx + 1
            /\ pc' = DepthLoop(layer_idx + 1)
            /\ active_workers' = {}
            /\ UNCHANGED <<status, iter_status, in_iteration, contVars>>)

\* EndIterRequest asking every worker for the training loss.
EndIterRequest_AllCompute(w) ==
  [type |-> "EmitEndIter", worker |-> w, id |-> iter_idx,
   compute_training_loss |-> TRUE]

\* The EndIter request to worker w (lines 1109-1119): the first worker is in
\* charge of the training loss.
EndIterRequest(w) ==
  [type |-> "EmitEndIter", worker |-> w, id |-> iter_idx,
   compute_training_loss |-> (w = 0)]

EmitEndIter ==
  /\ SendLoop("EmitEndIter",
              {EndIterRequest(w) : w \in Workers},
              {{EndIterRequest(w) : w \in 0 .. (j - 1)} : j \in Workers},
              active_workers)
  /\ UNCHANGED rnd

\* MoveTreesIntoModel keeping one tree only, whatever the number of weak models.
MoveTreesIntoModel_OneTree(m) ==
  [m EXCEPT !.trees = @ + 1, !.logs = @ + 1,
            !.seeds = Append(@, Seed(random - 1)),
            !.iters = Append(@, iter_idx)]

\* MoveTreesIntoModel without the training-log entry.
MoveTreesIntoModel_NoLog(m) ==
  [m EXCEPT !.trees = @ + m.num_trees_per_iter,
            !.seeds = Append(@, Seed(random - 1)),
            !.iters = Append(@, iter_idx)]

\* Lines 574-601: the trees of the weak models are moved into the model and a
\* training-log entry is added.
MoveTreesIntoModel(m) ==
  [m EXCEPT !.trees = @ + m.num_trees_per_iter, !.logs = @ + 1,
            !.seeds = Append(@, Seed(random - 1)),
            !.iters = Append(@, iter_idx)]

\* RunIteration returns OK after EndIter.
EndIterReplies ==
  FanInLoop("EmitEndIter",
            /\ model' = MoveTreesIntoModel(model)
            /\ pc' = "IterStatus"
            /\ iter_status' = "ok"
            /\ in_iteration' = FALSE
            /\ layer_idx' = 0
            /\ UNCHANGED <<status, iter_idx, label_statistics,
                           minimum_iter_for_new_checkpoint, resync,
                           active_workers>>)

\* IsDataLoss taking every error for a data-loss.
IsDataLoss_AnyError(s) == s # "ok"

\* absl::IsDataLoss(iter_status), line 412.
IsDataLoss(s) == s = "data_loss"

\* Lines 408-442: what TrainWithCache does with the status of RunIteration.
\* StatusOr::value() on a failed GetGreatestSnapshot ends the process (an abort
\* or an uncaught BadStatusOrAccess).
IterStatus ==
  /\ pc = "IterStatus"
  /\ IF IsDataLoss(iter_status) THEN
       LET c == GetGreatestSnapshot(snapshots) IN
       IF c = NotOk THEN
         /\ pc' = "crashed"
         /\ UNCHANGED <<status, iter_idx, model, label_statistics, ckpt,
                        resync, restored>>
       ELSE
         /\ iter_idx' = c
         /\ restored' = c
         /\ IF CanRestore(c)
              THEN /\ model' = StoredModel(c)
                   /\ label_statistics' = StoredMeta(c).label_statistics
                   /\ ckpt' = [ckpt EXCEPT !.iter_idx = c,
                                  !.num_shards = StoredMeta(c).num_shards]
                   /\ resync' = TRUE
                   /\ pc' = "EmitRestoreCheckpoint"
                   /\ status' = status
              ELSE /\ pc' = "returned" /\ status' = "not_found"
                   /\ UNCHANGED <<model, label_statistics, ckpt, resync>>
     ELSE IF iter_status # "ok" THEN
       /\ pc' = "returned" /\ status' = iter_status
       /\ UNCHANGED <<iter_idx, model, label_statistics, ckpt, resync,
                      restored>>
     ELSE
       /\ iter_idx' = iter_idx + 1
       /\ pc' = "LoopHead"
       /\ UNCHANGED <<status, model, label_statistics, ckpt, resync, restored>>
  /\ UNCHANGED <<random, rnd, iterVars, callVars, ownerVars, config, snapshots, checkpoint_dir, retries,
                 last_checkpoint_idx, minimum_iter_for_new_checkpoint, phase,
                 layer_idx, iter_status, reply_idx, active_workers,
                 current_stage, pending, in_iteration>>
  /\ emit' = NoEmit
  /\ iter_trace' = <<>>

\* -------------------------------------------------------------------- runs
\* A new process: training is launched again with try_resume_training on the
\* same work directory: the files stay, everything in memory and every reply
\* in flight is gone.
RestartDriver ==
  /\ pc' = "EmitStartTraining" /\ phase' = "call" /\ status' = "none"
  /\ iter_idx' = 0 /\ layer_idx' = 0
  /\ model' = EmptyModel /\ label_statistics' = "unset"
  /\ last_checkpoint_idx' = NotOk
  /\ minimum_iter_for_new_checkpoint' = -1
  /\ iter_status' = "none" /\ reply_idx' = 0 /\ retries' = 0
  /\ active_workers' = {}
  /\ ckpt' = [iter_idx |-> 0, num_shards |-> 0, ret |-> "none"]
  /\ resync' = FALSE /\ current_stage' = NoStage
  /\ pending' = {} /\ emit' = NoEmit /\ iter_trace' = <<>>
  /\ in_iteration' = FALSE /\ restored' = -1
  /\ random' = NewProcess(random)
  /\ rnd' = NewProcess(rnd)

\* The relaunch has the same configuration and the same dataset cache.
Restart ==
  /\ RestartDriver
  /\ UNCHANGED <<iterVars, callVars, ownerVars, config, snapshots, checkpoint_dir>>

\* The manager process has ended (return or crash) and training is launched
\* again.
Relaunch ==
  /\ pc \in {"returned", "crashed"}
  /\ Restart

\* Positions of the driver inside CreateCheckpoint.
CheckpointSteps ==
  {"CreateCheckpoint", "EmitCreateCheckpoint", "SetBinaryProto", "AddSnapshot"}

\* The manager process is killed while it creates a checkpoint, and training
\* is launched again.
KillInCheckpoint ==
  /\ pc \in CheckpointSteps
  /\ Restart

\* Worker counts of the large cluster: all the workers, or half of them.
ClusterSizes == {MaxCkptWorkers, MaxCkptWorkers \div 2}

\* The manager process has ended and training is launched again on the same
\* work directory with a deployment of another number of workers: lines 312-315
\* read the worker count and assign the features again.
RelaunchResized ==
  /\ pc \in {"returned", "crashed"}
  /\ RestartDriver
  /\ \E w \in ClusterSizes \ {config.num_workers} :
       /\ config' = [config EXCEPT !.num_workers = w]
       /\ feature_ownership' =
            AssignFeaturesToWorkers(duplicate_computation_on_all_workers,
                                    features, w, cache_metadata,
                                    [f \in FeatureIdxs |-> Int64(0, 0)])
  /\ UNCHANGED <<iterVars, callVars, features, cache_metadata,
                 duplicate_computation_on_all_workers, snapshots,
                 checkpoint_dir>>

Next ==
  \/ EmitStartTraining \/ StartTrainingReplies
  \/ Initialize
  \/ EmitRestoreCheckpoint \/ RestoreCheckpointReplies
  \/ EmitGetLabelStatistics
  \/ GetLabelStatisticsReply
  \/ EmitSetInitialPredictions \/ SetInitialPredictionsReplies
  \/ LoopHead
  \/ CreateCheckpoint \/ EmitCreateCheckpoint \/ CreateCheckpointReplies
  \/ SetBinaryProto \/ AddSnapshot
  \/ EmitStartNewIter \/ StartNewIterReplies
  \/ EmitFindSplits \/ FindSplitsReplies
  \/ EmitEvaluateSplits \/ EvaluateSplitsReplies
  \/ EmitShareSplits \/ ShareSplitsReplies
  \/ EmitEndIter \/ EndIterReplies
  \/ IterStatus
  \/ FinalCheckpoint
  \/ Done
  \/ Relaunch

Spec == Init /\ [][Next]_vars

\* The layers of the depth loop of RunIteration (line 528): layer_idx from 0
\* while layer_idx < max_depth - 1.
Layers(c) == 0 .. (c.max_depth - 2)

\* Open nodes a weak model can have in layer l: the root in the first layer,
\* then none (no valid split left) up to two per open node of the layer before,
\* at most MaxOpenNodes here.
OpenNodeCounts(l) ==
  IF l = 0 THEN {1}
  ELSE 0 .. (IF 2 ^ l < MaxOpenNodes THEN 2 ^ l ELSE MaxOpenNodes)

\* The number of merged splits, one per open node, of all the weak models.
RECURSIVE NumSplits(_)
NumSplits(splits) ==
  IF splits = <<>> THEN 0
  ELSE Len(splits[1]) + NumSplits([i \in 1 .. (Len(splits) - 1) |-> splits[i + 1]])

\* The history of emitter `kind` after its OK return from a broadcast to the
\* W workers.
ReturnedOk(kind) ==
  [kind |-> kind, sent |-> config.num_workers, recv |-> config.num_workers,
   reply |-> [ok |-> TRUE, restart |-> FALSE, has |-> TRUE],
   result |-> "ok", reissue |-> NoReissue, losses |-> <<>>]

\* The emitters RunIteration has called when it is at layer l.
RECURSIVE LayerTrace(_)
LayerTrace(l) ==
  IF l = 0 THEN <<"EmitStartNewIter">>
  ELSE LayerTrace(l - 1) \o
         <<"EmitFindSplits", "EmitEvaluateSplits", "EmitShareSplits">>

\* ------------------------------------------------- the splits of one layer
\* A merged split as BuildActiveWorkers reads it: IsSplitValid and, for a valid
\* split, the attribute of its condition.  The workers look for splits among
\* the features of their request, which are input features.
Splits(feats) ==
  {[valid |-> FALSE, attribute |-> 0]} \cup
  {[valid |-> TRUE, attribute |-> f] : f \in Range(feats)}

\* RunIteration at its call of EmitEvaluateSplits (line 549), in the first
\* iteration of a training of depth MaxDepth, in any layer of the depth loop:
\* the merged splits of a layer with an open node (at least one valid split,
\* line 541), one split per open node of each weak model, for every worker
\* count, replication flag and list of boolean input features 0..n-1.
InitEvaluateSplits ==
  /\ config \in {c \in Configs :
                   /\ c.num_trees = 1 /\ c.max_depth = MaxDepth
                   /\ c.checkpoint_interval_trees = -1
                   /\ c.checkpoint_interval_seconds = -1}
  /\ pc = "EmitEvaluateSplits" /\ phase = "call" /\ status = "none"
  /\ iter_idx = 0 /\ layer_idx \in Layers(config)
  /\ model = [EmptyModel EXCEPT
                 !.num_trees_per_iter = config.num_trees_per_iter]
  /\ label_statistics = "dataset"
  /\ last_checkpoint_idx = NotOk
  /\ minimum_iter_for_new_checkpoint = -1
  /\ iter_status = "none" /\ reply_idx = 0 /\ retries = 0
  /\ active_workers = {}
  /\ ckpt = [iter_idx |-> 0, num_shards |-> 0, ret |-> "none"]
  /\ resync = FALSE /\ current_stage = NoStage
  /\ pending = {} /\ emit = ReturnedOk("EmitFindSplits")
  /\ iter_trace = Append(LayerTrace(layer_idx), "EmitFindSplits")
  /\ in_iteration = TRUE /\ restored = -1
  /\ random = -1
  /\ rnd = 0
  /\ Called
  /\ weak_models = <<>> /\ dt_config = DefaultDtConfig
  /\ dataset_num_examples = NumExamples
  /\ training_evaluation = NoEvaluation
  /\ snapshots = {}
  /\ checkpoint_dir = [i \in 0 .. MaxTrees |-> EmptyDir]
  /\ features \in {[i \in 1 .. n |-> i - 1] : n \in 1 .. MaxFeatures}
  /\ cache_metadata =
       [f \in FeatureIdxs |-> [type |-> "boolean", count |-> Int64(0, 0)]]
  /\ duplicate_computation_on_all_workers \in BOOLEAN
  /\ feature_ownership =
       AssignFeaturesToWorkers(duplicate_computation_on_all_workers,
                               features, config.num_workers, cache_metadata,
                               [f \in FeatureIdxs |-> Int64(0, 0)])
  /\ splits_per_weak_models \in
       [1 .. config.num_trees_per_iter ->
          UNION {[1 .. n -> Splits(features)] :
                   n \in OpenNodeCounts(layer_idx)}]
  /\ ValidSplits(splits_per_weak_models) # {}
  /\ NumSplits(splits_per_weak_models)
       <= Max({MaxOpenNodes, config.num_trees_per_iter})

\* ------------------------------------------------------------ shard ranges
\* TrainWithCache at a call of CreateCheckpoint (line 396), before the first
\* iteration: for every number of examples and every cluster of up to
\* MaxShards checkpoint shards.
InitShards ==
  /\ config \in {[num_workers |-> w, num_trees |-> 1, max_depth |-> 1,
                   num_trees_per_iter |-> 1,
                   checkpoint_interval_trees |-> 1,
                   checkpoint_interval_seconds |-> -1] :
                  w \in 1 .. (4 * MaxShards + 3)}
  /\ pc = "CreateCheckpoint" /\ phase = "call" /\ status = "none"
  /\ iter_idx = 0 /\ layer_idx = 0
  /\ model = EmptyModel /\ label_statistics = "dataset"
  /\ last_checkpoint_idx = 0
  /\ minimum_iter_for_new_checkpoint = -1
  /\ iter_status = "none" /\ reply_idx = 0 /\ retries = 0
  /\ active_workers = {}
  /\ ckpt = [iter_idx |-> 0, num_shards |-> NumShards(config.num_workers),
             ret |-> "EmitStartNewIter"]
  /\ resync = FALSE /\ current_stage = NoStage
  /\ pending = {} /\ emit = NoEmit /\ iter_trace = <<>>
  /\ in_iteration = FALSE /\ restored = -1
  /\ random = -1
  /\ rnd = -1
  /\ Called
  /\ OneFeature
  /\ splits_per_weak_models = <<>> /\ weak_models = <<>>
  /\ dt_config = DefaultDtConfig
  /\ dataset_num_examples \in 0 .. NumExamples
  /\ training_evaluation = NoEvaluation
  /\ snapshots = {}
  /\ checkpoint_dir = [i \in 0 .. MaxTrees |-> EmptyDir]

\* CreateCheckpoint up to the send loop of EmitCreateCheckpoint.
NextShards == CreateCheckpoint \/ EmitCreateCheckpoint

SpecShards == InitShards /\ [][NextShards]_vars

\* ------------------------------------------------------- one RunIteration
\* The Evaluation TrainWithCache declares at line 387, before the first
\* EndIter reply sets it.
InitialEvaluation == [loss |-> 0, metrics |-> <<>>]

\* TrainWithCache at its first call of RunIteration (line 403), the training
\* evaluation observed, for every configuration under which no checkpoint was
\* written before it (no checkpoint_interval_trees; with
\* checkpoint_interval_seconds the interval has not elapsed yet).
InitRunIteration ==
  /\ config \in {c \in Configs : c.checkpoint_interval_trees = -1}
  /\ pc = "EmitStartNewIter" /\ phase = "call" /\ status = "none"
  /\ iter_idx = 0 /\ layer_idx = 0
  /\ model = [EmptyModel EXCEPT
                 !.num_trees_per_iter = config.num_trees_per_iter]
  /\ label_statistics = "dataset"
  /\ last_checkpoint_idx = NotOk
  /\ minimum_iter_for_new_checkpoint = -1
  /\ iter_status = "none" /\ reply_idx = 0 /\ retries = 0
  /\ active_workers = {}
  /\ ckpt = [iter_idx |-> 0, num_shards |-> 0, ret |-> "none"]
  /\ resync = FALSE /\ current_stage = NoStage
  /\ pending = {} /\ emit = NoEmit /\ iter_trace = <<>>
  /\ in_iteration = FALSE /\ restored = -1
  /\ random = -1
  /\ rnd = -1
  /\ Called
  /\ OneFeature
  /\ splits_per_weak_models = <<>> /\ weak_models = <<>>
  /\ dt_config = DefaultDtConfig /\ dataset_num_examples = NumExamples
  /\ training_evaluation = InitialEvaluation
  /\ snapshots = {}
  /\ checkpoint_dir = [i \in 0 .. MaxTrees |-> EmptyDir]

\* RunIteration (lines 494-615): its emitters.
NextRunIteration ==
  \/ EmitStartNewIter \/ StartNewIterReplies
  \/ EmitFindSplits \/ FindSplitsReplies
  \/ EmitEvaluateSplits \/ EvaluateSplitsReplies
  \/ EmitShareSplits \/ ShareSplitsReplies
  \/ EmitEndIter \/ EndIterReplies

SpecRunIteration == InitRunIteration /\ [][NextRunIteration]_vars

\* Values of num_candidate_attributes_ratio: not set, a half, all, and more
\* than all the features.
Ratios == {<<0, 1>>, <<1, 2>>, <<1, 1>>, <<3, 2>>}

\* decision_tree() configurations: at most one of the two fields is set.
DtConfigs ==
  {[num_candidate_attributes |-> n, num_candidate_attributes_ratio |-> <<0, 1>>] :
      n \in 0 .. (MaxFeatures + 1)} \cup
  {[num_candidate_attributes |-> 0, num_candidate_attributes_ratio |-> r] :
      r \in Ratios}

\* RunIteration at a call of EmitFindSplits (line 531), in the first
\* iteration of a training of depth MaxDepth, in any layer of the depth loop:
\* for every worker count, replication flag, list of boolean input
\* features 0..n-1, feature sampling and number of open nodes of the weak
\* models, of which one at least has an open node (the root in the first
\* layer, a valid split of the layer before in the other layers).
InitFindSplits ==
  /\ config \in {c \in Configs :
                   /\ c.num_trees = 1 /\ c.max_depth = MaxDepth
                   /\ c.checkpoint_interval_trees = -1
                   /\ c.checkpoint_interval_seconds = -1}
  /\ pc = "EmitFindSplits" /\ phase = "call" /\ status = "none"
  /\ iter_idx = 0 /\ layer_idx \in Layers(config)
  /\ model = [EmptyModel EXCEPT
                 !.num_trees_per_iter = config.num_trees_per_iter]
  /\ label_statistics = "dataset"
  /\ last_checkpoint_idx = NotOk
  /\ minimum_iter_for_new_checkpoint = -1
  /\ iter_status = "none" /\ reply_idx = 0 /\ retries = 0
  /\ active_workers = {}
  /\ ckpt = [iter_idx |-> 0, num_shards |-> 0, ret |-> "none"]
  /\ resync = FALSE /\ current_stage = NoStage
  /\ pending = {}
  /\ emit = ReturnedOk(IF layer_idx = 0 THEN "EmitStartNewIter"
                       ELSE "EmitShareSplits")
  /\ iter_trace = LayerTrace(layer_idx)
  /\ in_iteration = TRUE /\ restored = -1
  /\ random = -1
  /\ rnd = 0
  /\ Called
  /\ splits_per_weak_models = <<>>
  /\ dataset_num_examples = NumExamples
  /\ training_evaluation = NoEvaluation
  /\ snapshots = {}
  /\ checkpoint_dir = [i \in 0 .. MaxTrees |-> EmptyDir]
  /\ features \in {[i \in 1 .. n |-> i - 1] : n \in 0 .. (MaxFeatures - 1)}
  /\ cache_metadata =
       [f \in FeatureIdxs |-> [type |-> "boolean", count |-> Int64(0, 0)]]
  /\ duplicate_computation_on_all_workers \in BOOLEAN
  /\ feature_ownership =
       AssignFeaturesToWorkers(duplicate_computation_on_all_workers,
                               features, config.num_workers, cache_metadata,
                               [f \in FeatureIdxs |-> Int64(0, 0)])
  /\ dt_config \in DtConfigs
  /\ weak_models \in
       [1 .. config.num_trees_per_iter -> OpenNodeCounts(layer_idx)]
  /\ OpenNodes(weak_models) # {}
  /\ Cardinality(OpenNodes(weak_models))
       <= Max({MaxOpenNodes, config.num_trees_per_iter})

NextFindSplits == EmitFindSplits \/ FindSplitsReplies

SpecFindSplits == InitFindSplits /\ [][NextFindSplits]_vars

NextEvaluateSplits ==
  \/ EmitEvaluateSplits \/ EvaluateSplitsReplies
  \/ EmitShareSplits \/ ShareSplitsReplies

SpecEvaluateSplits == InitEvaluateSplits /\ [][NextEvaluateSplits]_vars

\* ------------------------------------------------------------- scenario S1
\* Scenario S1 of the specification: a fresh run of 50 iterations with a
\* checkpoint every 10 trees and no time-based checkpoint, in which no request
\* fails and no worker asks for a restart, followed by resumed runs on the same
\* work directory.
S1Config ==
  [num_workers |-> 2, num_trees |-> 50, max_depth |-> 2,
   num_trees_per_iter |-> 1,
   checkpoint_interval_trees |-> 10, checkpoint_interval_seconds |-> -1]

InitS1 ==
  /\ config = S1Config
  /\ Fresh
  /\ random = -1
  /\ rnd = -1
  /\ OneFeature
  /\ snapshots = {}
  /\ checkpoint_dir = [i \in 0 .. S1Config.num_trees |-> EmptyDir]

\* No failure so far in the emitter at hand: every request was sent, every
\* reply is an OK reply of the requested variant without the restart-iter flag.
FailureFree ==
  /\ pc # "crashed"
  /\ status \in {"none", "ok"}
  /\ iter_status \in {"none", "ok"}
  /\ emit.result \in {"none", "running", "ok"}
  /\ emit.reply.ok /\ ~emit.reply.restart /\ emit.reply.has

NextS1 ==
  \/ EmitStartTraining /\ FailureFree'
  \/ StartTrainingReplies /\ FailureFree'
  \/ Initialize /\ FailureFree'
  \/ EmitRestoreCheckpoint /\ FailureFree'
  \/ RestoreCheckpointReplies /\ FailureFree'
  \/ EmitGetLabelStatistics /\ FailureFree'
  \/ GetLabelStatisticsReply /\ FailureFree'
  \/ EmitSetInitialPredictions /\ FailureFree'
  \/ SetInitialPredictionsReplies /\ FailureFree'
  \/ LoopHead /\ FailureFree'
  \/ CreateCheckpoint /\ FailureFree'
  \/ EmitCreateCheckpoint /\ FailureFree'
  \/ CreateCheckpointReplies /\ FailureFree'
  \/ SetBinaryProto /\ FailureFree'
  \/ AddSnapshot /\ FailureFree'
  \/ EmitStartNewIter /\ FailureFree'
  \/ StartNewIterReplies /\ FailureFree'
  \/ EmitFindSplits /\ FailureFree'
  \/ FindSplitsReplies /\ FailureFree'
  \/ EmitEvaluateSplits /\ FailureFree'
  \/ EvaluateSplitsReplies /\ FailureFree'
  \/ EmitShareSplits /\ FailureFree'
  \/ ShareSplitsReplies /\ FailureFree'
  \/ EmitEndIter /\ FailureFree'
  \/ EndIterReplies /\ FailureFree'
  \/ IterStatus /\ FailureFree'
  \/ FinalCheckpoint /\ FailureFree'
  \/ Done /\ FailureFree'
  \/ Relaunch /\ FailureFree'

SpecS1 == InitS1 /\ [][NextS1]_vars

\* ----------------------------------------------------------- large cluster
\* The same program on a cluster of MaxCkptWorkers workers, where a checkpoint
\* has more than one shard: one tree of depth 1 (the depth loop of RunIteration
\* has no pass), only the final checkpoint.
LargeConfig ==
  [num_workers |-> MaxCkptWorkers, num_trees |-> 1, max_depth |-> 1,
   num_trees_per_iter |-> 1,
   checkpoint_interval_trees |-> -1, checkpoint_interval_seconds |-> -1]

InitLarge ==
  /\ config = LargeConfig
  /\ Fresh
  /\ random = -1
  /\ rnd = -1
  /\ OneFeature
  /\ snapshots = {}
  /\ checkpoint_dir = [i \in 0 .. MaxTrees |-> EmptyDir]

NextLarge ==
  \/ EmitStartTraining \/ StartTrainingReplies
  \/ Initialize
  \/ EmitRestoreCheckpoint \/ RestoreCheckpointReplies
  \/ EmitGetLabelStatistics
  \/ GetLabelStatisticsReply
  \/ EmitSetInitialPredictions \/ SetInitialPredictionsReplies
  \/ LoopHead
  \/ CreateCheckpoint \/ EmitCreateCheckpoint \/ CreateCheckpointReplies
  \/ SetBinaryProto \/ AddSnapshot
  \/ EmitStartNewIter \/ StartNewIterReplies
  \/ EmitEndIter \/ EndIterReplies
  \/ IterStatus
  \/ FinalCheckpoint
  \/ Done
  \/ Relaunch
  \/ KillInCheckpoint

SpecLarge == InitLarge /\ [][NextLarge]_vars

\* ---------------------------------------------------------- resized cluster
\* One tree of depth 1 with a checkpoint at every iteration, on a large cluster
\* whose number of workers changes from one launch to the next: a checkpoint
\* written with one shard count is restored by a manager of another worker
\* count.
ResizeConfig ==
  [num_workers |-> MaxCkptWorkers, num_trees |-> 1, max_depth |-> 1,
   num_trees_per_iter |-> MaxTreesPerIter,
   checkpoint_interval_trees |-> 1, checkpoint_interval_seconds |-> -1]

InitResize ==
  /\ config = ResizeConfig
  /\ Fresh
  /\ random = -1
  /\ rnd = -1
  /\ OneFeature
  /\ snapshots = {}
  /\ checkpoint_dir = [i \in 0 .. MaxTrees |-> EmptyDir]

NextResize ==
  \/ EmitStartTraining \/ StartTrainingReplies
  \/ Initialize
  \/ EmitRestoreCheckpoint \/ RestoreCheckpointReplies
  \/ EmitGetLabelStatistics
  \/ GetLabelStatisticsReply
  \/ EmitSetInitialPredictions \/ SetInitialPredictionsReplies
  \/ LoopHead
  \/ CreateCheckpoint \/ EmitCreateCheckpoint \/ CreateCheckpointReplies
  \/ SetBinaryProto \/ AddSnapshot
  \/ EmitStartNewIter \/ StartNewIterReplies
  \/ EmitEndIter \/ EndIterReplies
  \/ IterStatus
  \/ FinalCheckpoint
  \/ Done
  \/ RelaunchResized

SpecResize == InitResize /\ [][NextResize]_vars

\* ------------------------------------------------------------ observed seeds
\* MaxTrees iterations with a checkpoint at every iteration, the values of
\* random() observed from the first call of the first process on.
SeedConfig ==
  [num_workers |-> MaxWorkers, num_trees |-> MaxTrees, max_depth |-> MaxDepth,
   num_trees_per_iter |-> 1,
   checkpoint_interval_trees |-> 1, checkpoint_interval_seconds |-> -1]

InitSeed ==
  /\ config = SeedConfig
  /\ Fresh
  /\ random = 0
  /\ rnd = -1
  /\ OneFeature
  /\ snapshots = {}
  /\ checkpoint_dir = [i \in 0 .. MaxTrees |-> EmptyDir]

\* One process from its start to its return: workers may fail and ask for a
\* restart of the iteration, the manager is never launched again.
NextRun ==
  \/ EmitStartTraining \/ StartTrainingReplies
  \/ Initialize
  \/ EmitRestoreCheckpoint \/ RestoreCheckpointReplies
  \/ EmitGetLabelStatistics
  \/ GetLabelStatisticsReply
  \/ EmitSetInitialPredictions \/ SetInitialPredictionsReplies
  \/ LoopHead
  \/ CreateCheckpoint \/ EmitCreateCheckpoint \/ CreateCheckpointReplies
  \/ SetBinaryProto \/ AddSnapshot
  \/ EmitStartNewIter \/ StartNewIterReplies
  \/ EmitFindSplits \/ FindSplitsReplies
  \/ EmitEvaluateSplits \/ EvaluateSplitsReplies
  \/ EmitShareSplits \/ ShareSplitsReplies
  \/ EmitEndIter \/ EndIterReplies
  \/ IterStatus
  \/ FinalCheckpoint
  \/ Done

SpecSeed == InitSeed /\ [][NextRun]_vars

\* The same training with relaunches of the manager on the work directory.
SpecSeedResume == InitSeed /\ [][Next]_vars

\* ----------------------------------------------------------------- one call
\* One call of TrainWithCache on a fresh work directory, for every
\* configuration.  The manager is one sequential thread and every blocking call
\* returns (each request gets a reply): as long as the call has not ended, its
\* next step is taken.
SpecRun == Init /\ [][NextRun]_vars /\ WF_vars(NextRun)

\* The same runs, the manager's thread taking its next step whenever it has
\* one: every send returns and every awaited reply arrives, as an answer or as
\* an error of the transport.  Launching the training again is the operator's
\* choice and has no fairness.
SpecFair == Init /\ [][Next]_vars /\ WF_vars(NextRun)

\* ---------------------------------------------------------- TrainWithStatus
\* CheckConfiguration with the test of cache_path only.
CheckConfiguration_CachePathOnly(d) ==
  IF d.cache_path = "" THEN "invalid_argument" ELSE "ok"

\* CheckConfiguration (lines 223-236).
CheckConfiguration(d) ==
  IF d.cache_path = "" THEN "invalid_argument"
  ELSE IF d.working_directory # "" THEN "invalid_argument"
  ELSE "ok"

\* What no step of TrainWithStatus before TrainWithCache touches.
trainVars == <<config, phase, iter_idx, layer_idx, model, label_statistics,
               last_checkpoint_idx, minimum_iter_for_new_checkpoint,
               iter_status, reply_idx, retries, active_workers, ckpt, resync,
               current_stage, pending, snapshots, checkpoint_dir, emit,
               iter_trace, in_iteration, restored, random, rnd, ownerVars,
               iterVars, deployment>>

\* A call under RETURN_IF_ERROR whose status the deployment does not
\* determine: it fails and TrainWithStatus returns, or the next step follows.
ReturnIfError(step, next) ==
  /\ pc = step
  /\ \/ pc' = next /\ status' = status
     \/ pc' = "returned" /\ status' = "failed"
  /\ UNCHANGED <<trainVars, work_directory, dataset_cache>>

\* Lines 129-131.
LinkTrainingConfig ==
  ReturnIfError("LinkTrainingConfig", "SetDefaultHyperParameters")

\* Lines 134-135.
SetDefaultHyperParameters ==
  ReturnIfError("SetDefaultHyperParameters", "CheckConfiguration")

\* Line 136: RETURN_IF_ERROR(internal::CheckConfiguration(deployment_)).
CallCheckConfiguration ==
  /\ pc = "CheckConfiguration"
  /\ LET s == CheckConfiguration(deployment) IN
       IF s = "ok" THEN pc' = "WorkDirectory" /\ status' = status
                   ELSE pc' = "returned" /\ status' = s
  /\ UNCHANGED <<trainVars, work_directory, dataset_cache>>

\* Lines 141-150: the work directory is resolved.
ResolveWorkDirectory ==
  /\ pc = "WorkDirectory"
  /\ work_directory' = WorkDirectory(deployment)
  /\ pc' = "CreateDatasetCache"
  /\ UNCHANGED <<trainVars, status, dataset_cache>>

\* config_link.weight_definition: none, a numerical column or a column of
\* another type.
WeightDefinitions == {"none", "numerical", "categorical"}

\* Lines 246-250 and 270-274: only the weighting with a numerical column is
\* supported.
CheckWeightDefinition(weights) ==
  IF weights # "none" /\ weights # "numerical" THEN "invalid_argument"
  ELSE "ok"

\* Lines 154-177: the type of the dataset path is split off (it may fail);
\* CreateDatasetCache or CreateDatasetCacheFromPartialDatasetCache returns the
\* invalid-argument error for a weighting that is not numerical before it
\* creates anything; else the dataset cache is created below the work
\* directory, or its creation fails; then TrainWithCache.
CreateDatasetCache ==
  /\ pc = "CreateDatasetCache"
  /\ \E weights \in WeightDefinitions :
       \/ dataset_cache' = dataset_cache /\ pc' = "returned"
          /\ status' = "failed"
       \/ IF CheckWeightDefinition(weights) # "ok"
            THEN /\ dataset_cache' = dataset_cache /\ pc' = "returned"
                 /\ status' = CheckWeightDefinition(weights)
            ELSE \/ dataset_cache' = TRUE /\ pc' = "EmitStartTraining"
                    /\ status' = status
                 \/ dataset_cache' = dataset_cache /\ pc' = "returned"
                    /\ status' = "failed"
  /\ UNCHANGED <<trainVars, work_directory>>

\* The in-memory version trained as the path version does.
TrainInMemory_AsPath ==
  /\ pc = "TrainInMemory"
  /\ pc' = "LinkTrainingConfig" /\ status' = status
  /\ UNCHANGED <<trainVars, work_directory, dataset_cache>>

\* TrainWithStatus on a VerticalDataset (lines 48-63), with or without a
\* validation dataset: the body is one return statement.
TrainInMemory ==
  /\ pc = "TrainInMemory"
  /\ \E train_dataset \in 0 .. NumExamples, valid_dataset \in BOOLEAN :
       pc' = "returned" /\ status' = "invalid_argument"
  /\ UNCHANGED <<trainVars, work_directory, dataset_cache>>

\* A call of TrainWithStatus at its first statement `entry`, for every
\* deployment and configuration.
InitCall(entry) ==
  /\ config \in Configs
  /\ pc = entry /\ phase = "call" /\ status = "none"
  /\ iter_idx = 0 /\ layer_idx = 0
  /\ model = EmptyModel /\ label_statistics = "unset"
  /\ last_checkpoint_idx = NotOk
  /\ minimum_iter_for_new_checkpoint = -1
  /\ iter_status = "none" /\ reply_idx = 0 /\ retries = 0
  /\ active_workers = {}
  /\ ckpt = [iter_idx |-> 0, num_shards |-> 0, ret |-> "none"]
  /\ resync = FALSE /\ current_stage = NoStage
  /\ pending = {} /\ emit = NoEmit /\ iter_trace = <<>>
  /\ in_iteration = FALSE /\ restored = -1
  /\ random = -1
  /\ rnd = -1
  /\ deployment \in Deployments
  /\ work_directory = "" /\ dataset_cache = FALSE
  /\ Unobserved
  /\ OneFeature
  /\ snapshots = {}
  /\ checkpoint_dir = [i \in 0 .. MaxTrees |-> EmptyDir]

\* A call of the path version of TrainWithStatus.
InitTrainWithStatus == InitCall("LinkTrainingConfig")

\* TrainWithStatus up to the first emitter of TrainWithCache.
NextTrainWithStatus ==
  \/ LinkTrainingConfig
  \/ SetDefaultHyperParameters
  \/ CallCheckConfiguration
  \/ ResolveWorkDirectory
  \/ CreateDatasetCache
  \/ EmitStartTraining \/ StartTrainingReplies

SpecTrainWithStatus == InitTrainWithStatus /\ [][NextTrainWithStatus]_vars

\* A call of the in-memory version of TrainWithStatus.
InitTrainInMemory == InitCall("TrainInMemory")

NextTrainInMemory == TrainInMemory

SpecTrainInMemory == InitTrainInMemory /\ [][NextTrainInMemory]_vars

\* ------------------------------------------------------ ownership inputs
\* The features of the list whose column has no type.
NotSet ==
  {f \in FeatureIdxs : /\ \E i \in DOMAIN features : features[i] = f
                       /\ cache_metadata[f].type = "not_set"}

\* TrainWithCache at its call of AssignFeaturesToWorkers (line 312), for every
\* feature list, column metadata, worker count and replication flag.
InitOwnership ==
  /\ config \in {c \in Configs :
                   /\ c.num_trees = 1 /\ c.max_depth = 1
                   /\ c.num_trees_per_iter = 1
                   /\ c.checkpoint_interval_trees = -1
                   /\ c.checkpoint_interval_seconds = -1}
  /\ pc = "AssignFeaturesToWorkers" /\ phase = "call" /\ status = "none"
  /\ iter_idx = 0 /\ layer_idx = 0
  /\ model = EmptyModel /\ label_statistics = "unset"
  /\ last_checkpoint_idx = NotOk
  /\ minimum_iter_for_new_checkpoint = -1
  /\ iter_status = "none" /\ reply_idx = 0 /\ retries = 0
  /\ active_workers = {}
  /\ ckpt = [iter_idx |-> 0, num_shards |-> 0, ret |-> "none"]
  /\ resync = FALSE /\ current_stage = NoStage
  /\ pending = {} /\ emit = NoEmit /\ iter_trace = <<>>
  /\ in_iteration = FALSE /\ restored = -1
  /\ random = -1
  /\ rnd = -1
  /\ Called /\ Unobserved
  /\ snapshots = {}
  /\ checkpoint_dir = [i \in 0 .. MaxTrees |-> EmptyDir]
  /\ features \in FeatureLists
  /\ cache_metadata \in [FeatureIdxs -> Columns]
  /\ \A f \in FeatureIdxs :
        (\A i \in DOMAIN features : features[i] # f) =>
           cache_metadata[f].type = "boolean"
  /\ duplicate_computation_on_all_workers \in BOOLEAN
  /\ feature_ownership = EmptyOwnership(<<>>, 1)

\* TrainWithCache lines 310-313: the ownership is computed, the distribution
\* manager created; the first emitter follows.
CallAssignFeaturesToWorkers ==
  /\ pc = "AssignFeaturesToWorkers"
  /\ \E unwritten \in
          [(IF duplicate_computation_on_all_workers THEN {} ELSE NotSet) ->
             Uninitialized(WrittenScores(features, cache_metadata),
                           Cardinality(NotSet))] :
       LET garbage == [f \in FeatureIdxs |->
                         IF f \in DOMAIN unwritten THEN unwritten[f]
                         ELSE Int64(0, 1)]
       IN  feature_ownership' =
             AssignFeaturesToWorkers(duplicate_computation_on_all_workers,
                                     features, config.num_workers,
                                     cache_metadata, garbage)
  /\ pc' = "EmitStartTraining"
  /\ UNCHANGED <<features, cache_metadata,
                 duplicate_computation_on_all_workers, config, phase, status,
                 iter_idx, layer_idx, model, label_statistics,
                 last_checkpoint_idx, minimum_iter_for_new_checkpoint,
                 iter_status, reply_idx, retries, active_workers, ckpt,
                 resync, current_stage, pending, snapshots, checkpoint_dir,
                 emit, iter_trace, in_iteration, restored, random, rnd, callVars, iterVars>>

NextOwnership == CallAssignFeaturesToWorkers

SpecOwnership == InitOwnership /\ [][NextOwnership]_vars

\* ============================================================== properties
Running == pc \notin {"returned", "crashed"}

TreesPerIter == config.num_trees_per_iter

\* C1 -- Iteration monotonicity: each time RunIteration(i) is entered (fresh
\* run, resume at startup or after data-loss recoveries) the model holds i*K
\* trees, and when it returns OK the model holds (i+1)*K trees, K being
\* num_trees_per_iter; every stored checkpoint c holds a model of c*K trees.
C1_IterationMonotonicity ==
  /\ (pc = "EmitStartNewIter" /\ phase = "call") =>
        /\ model.num_trees_per_iter = TreesPerIter
        /\ model.trees = iter_idx * TreesPerIter
  /\ (pc = "IterStatus" /\ iter_status = "ok") =>
        model.trees = (iter_idx + 1) * TreesPerIter
  /\ \A c \in DOMAIN checkpoint_dir :
        checkpoint_dir[c].model # {} =>
          StoredModel(c).trees = c * TreesPerIter

\* An iteration i >= 1 with K = MaxTreesPerIter returned OK after a data-loss
\* recovery from a checkpoint c >= 1.
C1_Witness ==
  /\ pc = "IterStatus" /\ iter_status = "ok"
  /\ iter_idx >= 1 /\ restored >= 1
  /\ TreesPerIter = MaxTreesPerIter
  /\ model.trees = (iter_idx + 1) * MaxTreesPerIter

C2_Restored ==
  (resync /\ pc = "EmitRestoreCheckpoint") =>
     /\ snapshots # {}
     /\ restored = Max(snapshots)
     /\ iter_idx = restored
     /\ model = StoredModel(restored)
     /\ label_statistics = StoredMeta(restored).label_statistics

C2_NoIterationBeforeRestore ==
  resync => pc \in {"EmitRestoreCheckpoint", "returned"}

C2_Broadcast ==
  (resync /\ ~resync' /\ pc = "EmitRestoreCheckpoint") =>
     /\ emit'.kind = "EmitRestoreCheckpoint"
     /\ emit'.sent = config.num_workers
     /\ emit'.recv = config.num_workers
     /\ pending' = {}
     /\ pc' = "LoopHead"
     /\ iter_idx' = restored
     /\ iter_idx' < config.num_trees

C2_NextCall ==
  (pc = "LoopHead" /\ emit.kind = "EmitRestoreCheckpoint" /\ restored # -1) =>
     /\ pc' = "EmitStartNewIter"
     /\ iter_idx' = restored
     /\ model' = model

C2_Completes ==
  (pc = "returned" /\ status = "ok") =>
     model.trees = config.num_trees * TreesPerIter

\* The driver has rolled back to the greatest snapshot and is about to send
\* RestoreCheckpoint; the checkpoint interval is not 0 (with 0 the remainder
\* of ShouldCreateCheckpoint, line 723, is undefined).
C2_Recovering ==
  /\ resync /\ pc = "EmitRestoreCheckpoint" /\ phase = "call"
  /\ config.checkpoint_interval_trees # 0

\* TrainWithCache returned OK with num_trees*K trees.
C2_Completed ==
  /\ pc = "returned" /\ status = "ok"
  /\ model.trees = config.num_trees * TreesPerIter

\* A failure after the recovery: RunIteration returns data-loss once more, or
\* TrainWithCache returns an error.
C2_FailsAgain ==
  \/ pc = "IterStatus" /\ iter_status = "data_loss"
  \/ pc = "returned" /\ status # "ok"

\* C2 -- Data-loss recovery: when RunIteration returns data-loss and the
\* greatest stored snapshot is c, the driver takes the model and the label
\* statistics of checkpoint c, broadcasts RestoreCheckpoint to all W workers
\* (and consumes the W replies) before any further StartNewIter, and the next
\* RunIteration call is for iteration c; the training then completes: unless
\* a worker or the transport fails again, TrainWithCache eventually returns OK
\* with num_trees*K trees (for every checkpoint interval but 0, where the
\* behaviour of the loop head is undefined), and whenever it returns OK the
\* model holds num_trees*K trees.
C2_DataLossRecovery ==
  /\ [](C2_Restored /\ C2_NoIterationBeforeRestore /\ C2_Completes)
  /\ [][C2_Broadcast /\ C2_NextCall]_vars
  /\ C2_Recovering ~> (C2_Completed \/ C2_FailsAgain)

\* A training on two workers that recovered from checkpoint c >= 1 returned OK.
C2_Witness ==
  /\ pc = "returned" /\ status = "ok"
  /\ restored >= 1
  /\ config.num_workers = MaxWorkers
  /\ model.trees = config.num_trees * TreesPerIter

\* C3 -- A data-loss of RunIteration while no snapshot is stored makes
\* TrainWithCache return an error status; the process does not crash.
C3_NoSnapshotReturnsError ==
  [][(pc = "IterStatus" /\ IsDataLoss(iter_status) /\ snapshots = {}) =>
        (pc' = "returned" /\ status' \notin {"none", "ok"})]_vars

\* C4 -- Every status of RunIteration other than OK and data-loss is returned
\* as it is by TrainWithCache: no request is sent, no checkpoint file or
\* snapshot is written and no iteration is run afterwards.
C4_OtherErrorsPropagate ==
  /\ [][(pc = "IterStatus" /\ iter_status \notin {"ok", "data_loss"}) =>
          /\ pc' = "returned" /\ status' = iter_status
          /\ pending' = pending
          /\ snapshots' = snapshots /\ checkpoint_dir' = checkpoint_dir
          /\ model' = model /\ iter_idx' = iter_idx]_vars
  /\ [][pc = "returned" =>
          /\ pending' \subseteq pending
          /\ snapshots' = snapshots /\ checkpoint_dir' = checkpoint_dir
          /\ pc' \in {"returned", "EmitStartTraining"}]_vars

\* RunIteration returned an internal error while a snapshot was stored, and
\* TrainWithCache returned it.
C4_Witness ==
  /\ pc = "returned" /\ status = "internal" /\ iter_status = "internal"
  /\ snapshots # {}

\* C5 -- A data-loss of the CreateCheckpoint emitter (reissue budget
\* exhausted) does not end TrainWithCache with that error.
C5_CheckpointDataLossRecovered ==
  ~(/\ pc = "returned" /\ status = "data_loss"
    /\ emit.kind = "EmitCreateCheckpoint")

\* The broadcast/ack emitters.
BroadcastEmitters ==
  {"EmitStartTraining", "EmitSetInitialPredictions", "EmitStartNewIter",
   "EmitFindSplits", "EmitShareSplits", "EmitEndIter",
   "EmitRestoreCheckpoint"}

\* C6 -- The restart-iter signal is contagious in every broadcast/ack emitter:
\* the emitter that consumes a reply with request_restart_iter consumes the
\* remaining replies of its fan-out and returns data-loss (a transport failure
\* of the drain aside), neither OK nor an internal error, nor does it go on.
C6_RestartIterContagious ==
  (emit.kind \in BroadcastEmitters /\ emit.reply.ok /\ emit.reply.restart) =>
     /\ emit.result \in {"data_loss", "transport"}
     /\ emit.result = "data_loss" => emit.recv = emit.sent

\* C7 -- Emitters match sends to receives: an emitter that returns OK or
\* data-loss has consumed as many asynchronous replies as it sent requests, and
\* none of its replies is left in the queue.
C7_SendsMatchReceives ==
  emit.result \in {"ok", "data_loss"} =>
     /\ emit.recv = emit.sent
     /\ \A r \in pending : r.type # emit.kind

RunIterationEmitters ==
  {"EmitStartNewIter", "EmitFindSplits", "EmitEvaluateSplits",
   "EmitShareSplits", "EmitEndIter"}

\* Emitters that may follow an emitter inside RunIteration, the code's order.
NextPhase(kind) ==
  CASE kind = "EmitStartNewIter" -> {"EmitFindSplits", "EmitEndIter"}
    [] kind = "EmitFindSplits" -> {"EmitEvaluateSplits", "EmitEndIter"}
    [] kind = "EmitEvaluateSplits" -> {"EmitShareSplits"}
    [] kind = "EmitShareSplits" -> {"EmitFindSplits", "EmitEndIter"}
    [] OTHER -> {}

\* The order with every layer complete.
NextPhaseStrict(kind) ==
  CASE kind = "EmitStartNewIter" -> {"EmitFindSplits", "EmitEndIter"}
    [] kind = "EmitFindSplits" -> {"EmitEvaluateSplits"}
    [] kind = "EmitEvaluateSplits" -> {"EmitShareSplits"}
    [] kind = "EmitShareSplits" -> {"EmitFindSplits", "EmitEndIter"}
    [] OTHER -> {}

\* Every reply of the previous phases is consumed when a phase sends.
PhaseDrained ==
  pc \in RunIterationEmitters =>
     /\ phase = "call" => pending = {}
     /\ phase = "recv" => \A r \in pending : r.type = pc /\ r.id = iter_idx

NumLayers(t) == Cardinality({i \in DOMAIN t : t[i] = "EmitFindSplits"})

C9_TotalOrder ==
  /\ (pc = "IterStatus" /\ iter_status = "ok") =>
        /\ emit.kind = "EmitEndIter"
        /\ emit.sent = config.num_workers
        /\ emit.recv = config.num_workers
        /\ pending = {}
  /\ (pc = "EmitStartNewIter" /\ phase = "call") => pending = {}
  /\ (Running /\ in_iteration) =>
        \A r \in pending :
           r.type \in RunIterationEmitters /\ r.id = iter_idx
  /\ \A r, q \in pending :
        Running => ~(r.type = "EmitStartNewIter" /\ q.type = "EmitEndIter")

\* The second iteration of a run on two workers waits for its StartNewIter
\* replies, the first having returned OK.
C9_Witness ==
  /\ pc = "EmitStartNewIter" /\ phase = "recv"
  /\ iter_idx >= 1 /\ restored = -1
  /\ model.trees = iter_idx * TreesPerIter
  /\ config.num_workers = MaxWorkers
  /\ Cardinality(pending) = MaxWorkers

\* A step that sends a CreateCheckpoint request or writes a checkpoint file or
\* the snapshot index.
CheckpointStep ==
  \/ snapshots' # snapshots
  \/ checkpoint_dir' # checkpoint_dir
  \/ \E r \in pending' \ pending : r.type = "EmitCreateCheckpoint"

\* C10 -- Checkpoints are created between iterations only: no CreateCheckpoint
\* request is sent and no checkpoint file or snapshot index is written between
\* the first StartNewIter request of an iteration and the return of its
\* RunIteration call; during that time the driver is in an emitter of
\* RunIteration.
C10_CheckpointBetweenIterations ==
  /\ [](in_iteration => pc \in RunIterationEmitters)
  /\ []((pc \in RunIterationEmitters \ {"EmitStartNewIter"}) => in_iteration)
  /\ [][CheckpointStep => (~in_iteration /\ ~in_iteration')]_vars

\* The snapshot of a checkpoint created between iteration 0 and iteration 1 is
\* about to be recorded.
C10_Witness ==
  /\ pc = "AddSnapshot" /\ ckpt.iter_idx >= 1
  /\ ckpt.ret = "EmitStartNewIter"
  /\ model.trees = ckpt.iter_idx * TreesPerIter
  /\ ~in_iteration

\* Shard files of a checkpoint of S shards.
ShardFiles(S) == {ShardFilename(s, S) : s \in 0 .. (S - 1)}

\* Checkpoint c has its model file, its meta file and every shard file.
Complete(c) ==
  /\ checkpoint_dir[c].model # {}
  /\ checkpoint_dir[c].meta # {}
  /\ ShardFiles(StoredMeta(c).num_shards) \subseteq checkpoint_dir[c].shards

\* C11 -- A partial checkpoint is never selected on restart: every index of the
\* snapshot list has its model file, its meta file and all its shard files,
\* whatever the step of CreateCheckpoint at which the manager was stopped; the
\* checkpoint the driver restores is a recorded, complete one.
C11_SnapshotsComplete ==
  /\ \A c \in snapshots : Complete(c)
  /\ (pc = "EmitRestoreCheckpoint") =>
        /\ ckpt.iter_idx = GetGreatestSnapshot(snapshots)
        /\ Complete(ckpt.iter_idx)

\* A relaunched manager finds a checkpoint directory holding the model and the
\* second shard only, unrecorded, and starts a new training.
C11_Witness ==
  /\ pc = "EmitGetLabelStatistics"
  /\ snapshots = {}
  /\ \E c \in DOMAIN checkpoint_dir :
        /\ checkpoint_dir[c].model # {}
        /\ checkpoint_dir[c].shards = {ShardFilename(1, 2)}
        /\ checkpoint_dir[c].meta = {}

\* CreateCheckpoint is invoked by this step.
InvokesCreateCheckpoint ==
  pc # "CreateCheckpoint" /\ pc' = "CreateCheckpoint"

\* C12 -- In one run of TrainWithCache (with a resume at startup and data-loss
\* restores) the indices CreateCheckpoint is invoked for are strictly
\* increasing, each greater than every index of the snapshot list; no file of
\* a recorded checkpoint is rewritten and no snapshot index is removed.
C12_CheckpointIndicesIncrease ==
  /\ [][InvokesCreateCheckpoint =>
          /\ ckpt'.iter_idx = iter_idx
          /\ \A c \in snapshots : ckpt'.iter_idx > c
          /\ last_checkpoint_idx # NotOk =>
                ckpt'.iter_idx > last_checkpoint_idx]_vars
  /\ []((pc \in CheckpointSteps /\ ckpt.ret = "EmitStartNewIter") =>
          last_checkpoint_idx = ckpt.iter_idx)
  /\ []((Running /\ snapshots # {} /\ pc \notin {"EmitStartTraining",
                                                 "Initialize", "Done"}) =>
          last_checkpoint_idx >= Max(snapshots))
  /\ [][/\ snapshots \subseteq snapshots'
        /\ \A c \in snapshots : checkpoint_dir'[c] = checkpoint_dir[c]]_vars

\* CreateCheckpoint is invoked for an index above the checkpoint restored
\* after a data-loss.
C12_Witness ==
  /\ pc = "CreateCheckpoint"
  /\ restored >= 0 /\ restored \in snapshots
  /\ ckpt.iter_idx > restored

\* The ownership has been computed.
Assigned == pc # "AssignFeaturesToWorkers"

worker_to_feature == feature_ownership.worker_to_feature

feature_to_worker == feature_ownership.feature_to_worker

\* Number of positions of list q holding x.
Occurrences(q, x) == Cardinality({i \in DOMAIN q : q[i] = x})

\* C13 -- Ownership totality: the union of worker_to_feature[w] over the
\* workers is the input feature set, every input feature has at least one owner
\* in feature_to_worker, and without replication exactly one owner and one
\* place in exactly one worker's list.
C13_OwnershipTotality ==
  Assigned =>
    /\ DOMAIN worker_to_feature = Workers
    /\ UNION {Range(worker_to_feature[w]) : w \in Workers} = Range(features)
    /\ \A f \in Range(features) :
          /\ f \in DOMAIN feature_to_worker
          /\ Len(feature_to_worker[f]) >= 1
          /\ Range(feature_to_worker[f]) \subseteq Workers
    /\ ~duplicate_computation_on_all_workers =>
          \A f \in Range(features) :
             /\ Len(feature_to_worker[f]) = 1
             /\ Cardinality({w \in Workers :
                               f \in Range(worker_to_feature[w])}) = 1
             /\ \A w \in Workers : Occurrences(worker_to_feature[w], f) <= 1

\* MaxFeatures features, one of them without a column type, were assigned to
\* MaxWorkers workers without replication.
C13_Witness ==
  /\ Assigned /\ ~duplicate_computation_on_all_workers
  /\ Len(features) = MaxFeatures /\ config.num_workers = MaxWorkers
  /\ \E f \in Range(features) : cache_metadata[f].type = "not_set"
  /\ \A f \in Range(features) : Len(feature_to_worker[f]) = 1

\* C14 -- Under replication every feature is owned by all the workers and the
\* two mappings agree: worker w is in feature_to_worker[f] exactly when f is in
\* worker_to_feature[w].
C14_ReplicationAgreement ==
  (Assigned /\ duplicate_computation_on_all_workers) =>
     \A f \in Range(features), w \in Workers :
        /\ f \in Range(worker_to_feature[w])
        /\ w \in Range(feature_to_worker[f])

\* ceil(a / b).
CeilDiv(a, b) == (a + b - 1) \div b

\* C15 -- Ownership balance without replication: the sizes of the workers'
\* lists differ by at most 1, no worker owns more than ceil(F/W) features, and
\* a worker has an empty list only if W > F.
C15_OwnershipBalance ==
  (Assigned /\ ~duplicate_computation_on_all_workers) =>
     /\ \A v, w \in Workers :
           Len(worker_to_feature[v]) - Len(worker_to_feature[w]) <= 1
     /\ \A w \in Workers :
           /\ Len(worker_to_feature[w])
                <= CeilDiv(Len(features), config.num_workers)
           /\ Len(worker_to_feature[w]) = 0 =>
                config.num_workers > Len(features)

\* MaxFeatures features were assigned to MaxWorkers workers, the first worker
\* owning one feature more than the last.
C15_Witness ==
  /\ Assigned /\ ~duplicate_computation_on_all_workers
  /\ Len(features) = MaxFeatures /\ config.num_workers = MaxWorkers
  /\ Len(worker_to_feature[0])
       = Len(worker_to_feature[MaxWorkers - 1]) + 1

\* The owner of feature f without replication.
OwnerOf(f) == feature_to_worker[f][1]

\* The rank of feature f in the order the features were handed out: place p
\* (1-based) of worker w's list is rank (p - 1) * W + w.
RankOf(f) ==
  LET w == OwnerOf(f)
      p == CHOOSE i \in DOMAIN worker_to_feature[w] :
              worker_to_feature[w][i] = f
  IN  (p - 1) * config.num_workers + w

Typed(f) == cache_metadata[f].type # "not_set"

\* The score of a typed column as <<multiple of 2^32, rest>>: 0 for boolean,
\* count + 2^32 for categorical and discretized numerical, count + 2 * 2^32
\* for numerical.
StatedScore(col) ==
  IF col.type = "boolean" THEN <<0, 0>>
  ELSE IF col.type = "numerical" THEN <<col.count[1] + 2, col.count[2]>>
  ELSE <<col.count[1] + 1, col.count[2]>>

\* f comes before g in the descending order of (score, feature index).
Before(f, g) ==
  LET a == StatedScore(cache_metadata[f])
      b == StatedScore(cache_metadata[g])
  IN  \/ a[1] > b[1]
      \/ a[1] = b[1] /\ a[2] > b[2]
      \/ a = b /\ f > g

\* Tier of a column type: numerical, then categorical and discretized, then
\* boolean.
Tier(col) ==
  IF col.type = "numerical" THEN 2
  ELSE IF col.type = "boolean" THEN 0 ELSE 1

\* The score of feature f when the columns without a type hold the values s.
ScoreWith(s, f) ==
  IF Typed(f) THEN StatedScore(cache_metadata[f]) ELSE s[f]

\* f comes before g in the descending order of (score, feature index), the
\* columns without a type holding the values s.
BeforeWith(s, f, g) ==
  LET a == ScoreWith(s, f)
      b == ScoreWith(s, g)
  IN  \/ a[1] > b[1]
      \/ a[1] = b[1] /\ a[2] > b[2]
      \/ a = b /\ f > g

\* C16 -- Without replication the features are ordered by (score, feature
\* index) descending, with the scores 0 (boolean), count + 2^32 (categorical,
\* discretized numerical), count + 2*2^32 (numerical), and the feature of rank
\* r goes to worker r mod W; with counts below 2^32 a numerical feature comes
\* before a categorical or discretized one, which comes before a boolean one.
\* The whole list, the features whose column has no type included, is in the
\* descending order of (score, feature index) for some int64 score of each
\* of these features.
C16_ScoreOrderRoundRobin ==
  (Assigned /\ ~duplicate_computation_on_all_workers) =>
     LET rank == [f \in Range(features) |-> RankOf(f)]
     IN  /\ {rank[f] : f \in Range(features)} = 0 .. (Len(features) - 1)
         /\ \A f \in Range(features) :
               OwnerOf(f) = rank[f] % config.num_workers
         /\ \A f, g \in Range(features) :
               (Typed(f) /\ Typed(g) /\ Before(f, g)) => rank[f] < rank[g]
         /\ \E s \in [NotSet ->
                         Uninitialized(WrittenScores(features, cache_metadata),
                                       Cardinality(NotSet))] :
               \A f, g \in Range(features) :
                  BeforeWith(s, f, g) => rank[f] < rank[g]
         /\ \A f, g \in Range(features) :
               (/\ Typed(f) /\ Typed(g)
                /\ cache_metadata[f].count[1] = 0
                /\ cache_metadata[g].count[1] = 0
                /\ Tier(cache_metadata[f]) > Tier(cache_metadata[g])) =>
                  rank[f] < rank[g]

\* A boolean, a categorical and a numerical feature, listed in that order, were
\* assigned: the numerical one has rank 0, the boolean one the last rank.
C16_Witness ==
  /\ Assigned /\ ~duplicate_computation_on_all_workers
  /\ Len(features) = 3 /\ config.num_workers = MaxWorkers
  /\ cache_metadata[features[1]].type = "boolean"
  /\ cache_metadata[features[2]].type = "categorical"
  /\ cache_metadata[features[3]].type = "numerical"
  /\ RankOf(features[3]) = 0 /\ RankOf(features[1]) = 2

\* C17 -- Retry bound of the sharded dispatch: one EmitCreateCheckpoint call
\* with S shards reissues at most 3*S shard requests (at most 4*S requests
\* sent), consumes at most 4*S + 1 replies, and returns data-loss when, and
\* only when, a restart-iter reply arrives with the budget used up.
C17_RetryBound ==
  emit.kind = "EmitCreateCheckpoint" =>
     /\ emit.sent <= 4 * ckpt.num_shards
     /\ emit.sent - ckpt.num_shards <= 3 * ckpt.num_shards
     /\ emit.recv <= 4 * ckpt.num_shards + 1
     /\ retries <= 3 * ckpt.num_shards + 1
     /\ retries > 3 * ckpt.num_shards =>
           /\ emit.result = "data_loss"
           /\ pc = "returned" /\ status = "data_loss"
     /\ emit.result = "data_loss" =>
           /\ retries = 3 * ckpt.num_shards + 1
           /\ emit.sent = 4 * ckpt.num_shards

\* A checkpoint of two shards ended in data-loss after 8 requests.
C17_Witness ==
  /\ pc = "returned" /\ status = "data_loss"
  /\ emit.kind = "EmitCreateCheckpoint"
  /\ ckpt.num_shards = 2
  /\ emit.sent = 8 /\ retries = 7

\* The last step reissued a CreateCheckpoint shard request.
Reissued == emit.kind = "EmitCreateCheckpoint" /\ emit.reissue.from # -1

\* C18 (as stated) -- A shard request answered by worker w with the
\* restart-iter flag is reissued to a worker different from w, for every
\* worker count W >= 1.
C18_ReissueToOtherWorker ==
  Reissued => emit.reissue.request.worker # emit.reissue.from

\* C18 -- A shard request answered by worker w with the restart-iter flag is
\* reissued to worker (w + 1) mod W, which differs from w exactly when W >= 2;
\* with a single worker the request goes back to w.
C18_ReissueToNextWorker ==
  Reissued =>
     /\ emit.reissue.request.worker =
           (emit.reissue.from + 1) % config.num_workers
     /\ emit.reissue.request \in pending
     /\ (emit.reissue.request.worker # emit.reissue.from)
           <=> (config.num_workers >= 2)

\* With two workers a request answered by worker 1 was reissued to worker 0.
C18_Witness ==
  /\ Reissued
  /\ config.num_workers = 2
  /\ emit.reissue.from = 1
  /\ emit.reissue.request.worker = 0

\* The example range of shard s among num_shards shards of NumExamples examples,
\* as the specification states it.
StatedRange(s, num_shards) ==
  LET per == CeilDiv(NumExamples, num_shards)
  IN  <<s * per,
        IF NumExamples < (s + 1) * per THEN NumExamples ELSE (s + 1) * per>>

\* C19 -- Every CreateCheckpoint request for shard s, sent initially or
\* reissued after a restart-iter reply, carries shard_idx = s, request_id = s
\* and the example range [s*ceil(N/S), min(N, (s+1)*ceil(N/S))).
C19_ShardRequestPayload ==
  \A r \in pending :
    r.type = "EmitCreateCheckpoint" =>
       /\ r.shard_idx = r.id
       /\ r.begin_example_idx = StatedRange(r.id, ckpt.num_shards)[1]
       /\ r.end_example_idx = StatedRange(r.id, ckpt.num_shards)[2]

\* What ShouldCreateCheckpoint is stated to return for the interval in seconds.
StatedBySeconds(elapsed) == config.checkpoint_interval_seconds >= 0 /\ elapsed

\* C20 -- ShouldCreateCheckpoint(i, t_last, config) is defined for every
\* interval value, checkpoint_interval_trees = 0 included: the call at the head
\* of the training loop always returns, and for a non-zero interval a checkpoint
\* is started only if i is a multiple of the interval in trees or the interval
\* in seconds is set.
C20_ShouldCreateCheckpointDefined ==
  [][(pc = "LoopHead" /\ iter_idx < config.num_trees) =>
        /\ pc' # "crashed"
        /\ (pc' = "CreateCheckpoint" /\ config.checkpoint_interval_trees # 0) =>
              \/ /\ config.checkpoint_interval_trees > 0
                 /\ iter_idx % config.checkpoint_interval_trees = 0
              \/ \E elapsed \in BOOLEAN : StatedBySeconds(elapsed)]_vars

\* C21 -- After the iteration loop TrainWithCache writes one final checkpoint,
\* at the final iteration index, if and only if no checkpoint is stored or the
\* final index is strictly greater than the latest stored index; after a
\* successful return the greatest snapshot index is at least the final
\* iteration index and its model holds all trees of the returned model.
C21_FinalCheckpoint ==
  /\ [][pc = "FinalCheckpoint" =>
          /\ (pc' = "CreateCheckpoint") <=>
                (snapshots = {} \/ iter_idx > Max(snapshots))
          /\ pc' = "CreateCheckpoint" =>
                /\ ckpt'.iter_idx = iter_idx
                /\ ckpt'.ret = "Done"
          /\ pc' # "CreateCheckpoint" => pc' = "Done"]_vars
  /\ []((pc = "returned" /\ status = "ok") =>
          /\ snapshots # {}
          /\ Max(snapshots) >= iter_idx
          /\ iter_idx = config.num_trees
          /\ CanRestore(Max(snapshots))
          /\ StoredModel(Max(snapshots)) = model
          /\ model.trees = config.num_trees * model.num_trees_per_iter)

\* A run returned OK after it wrote the final checkpoint at index num_trees,
\* above a checkpoint it had stored at the head of the loop.
C21_Witness ==
  /\ pc = "returned" /\ status = "ok"
  /\ ckpt.ret = "Done" /\ ckpt.iter_idx = config.num_trees
  /\ config.num_trees \in snapshots
  /\ \E c \in snapshots : c < config.num_trees
  /\ restored = -1

\* C22 (as stated) -- Scenario S1: the failure-free fresh run with
\* num_trees = 50 and checkpoint_interval_trees = 10 ends with exactly 5
\* checkpoints in the snapshot list, and a resumed run returns a model of 50
\* iterations of trees.
C22_FiveCheckpoints ==
  (pc = "returned" /\ status = "ok") =>
     /\ Cardinality(snapshots) = 5
     /\ model.trees = 50 * TreesPerIter

\* C22 -- Scenario S1: the failure-free fresh run with num_trees = 50 and
\* checkpoint_interval_trees = 10 ends with exactly 6 checkpoints in the
\* snapshot list, the loop-head checkpoints 0, 10, 20, 30, 40 and the final
\* checkpoint 50; a resumed run on the same work directory adds none and
\* returns a model of 50 iterations of trees.
C22_ScenarioS1 ==
  /\ \A c \in snapshots : c % 10 = 0 /\ c <= 50 /\ Complete(c)
  /\ (pc = "returned" /\ status = "ok") =>
        /\ snapshots = {0, 10, 20, 30, 40, 50}
        /\ Cardinality(snapshots) = 6
        /\ model.trees = 50 * TreesPerIter
        /\ model = StoredModel(50)

\* A run resumed from the work directory of the finished run returned OK.
C22_Witness ==
  /\ pc = "returned" /\ status = "ok"
  /\ last_checkpoint_idx = 50 /\ minimum_iter_for_new_checkpoint = 51
  /\ model.trees = 50
  /\ Cardinality(snapshots) = 6

\* Number of times emitter `kind` was entered in the iteration at hand.
Count(t, kind) == Cardinality({i \in DOMAIN t : t[i] = kind})

\* The depth loop was left at a layer whose FindSplits found no valid split.
BrokeOnNoValidSplit(t) ==
  Len(t) >= 2 /\ t[Len(t) - 1] = "EmitFindSplits" /\ t[Len(t)] = "EmitEndIter"

\* C23 -- If in some layer FindSplits returns no valid split, RunIteration
\* leaves the depth loop without EvaluateSplits or ShareSplits for that layer
\* and without applying splits (the step that leaves the loop changes neither
\* the layer nor the model), still emits EndIter to all workers exactly once,
\* and on success appends exactly K trees; the same holds when max_depth <= 1
\* and the depth loop has no pass.
C23_NoValidSplitStillEndsIter ==
  /\ []((pc = "IterStatus" /\ iter_status = "ok") =>
          /\ Count(iter_trace, "EmitEndIter") = 1
          /\ iter_trace[Len(iter_trace)] = "EmitEndIter"
          /\ emit.kind = "EmitEndIter"
          /\ emit.sent = config.num_workers
          /\ emit.recv = config.num_workers
          /\ model.trees = (iter_idx + 1) * TreesPerIter
          /\ BrokeOnNoValidSplit(iter_trace) =>
                /\ Count(iter_trace, "EmitEvaluateSplits")
                     = Count(iter_trace, "EmitFindSplits") - 1
                /\ Count(iter_trace, "EmitShareSplits")
                     = Count(iter_trace, "EmitFindSplits") - 1
          /\ config.max_depth <= 1 =>
                iter_trace = <<"EmitStartNewIter", "EmitEndIter">>)
  /\ [][(pc = "EmitFindSplits" /\ pc' \notin {"EmitFindSplits",
                                               "EmitEvaluateSplits"}) =>
          /\ model' = model /\ layer_idx' \in {layer_idx, 0}
          /\ pc' \in {"EmitEndIter", "IterStatus", "returned"}
          /\ pc' = "IterStatus" => iter_status' # "ok"]_vars
  /\ [][(pc = "EmitEndIter" /\ pc' = "IterStatus" /\ iter_status' = "ok") =>
          model'.trees = model.trees + TreesPerIter]_vars

\* An iteration of K = MaxTreesPerIter weak models on MaxWorkers workers
\* returned OK after its first layer found no valid split.
C23_Witness ==
  /\ pc = "IterStatus" /\ iter_status = "ok"
  /\ BrokeOnNoValidSplit(iter_trace)
  /\ Count(iter_trace, "EmitEvaluateSplits") = 0
  /\ TreesPerIter = MaxTreesPerIter /\ config.num_workers = MaxWorkers
  /\ model.trees = (iter_idx + 1) * MaxTreesPerIter
  /\ emit.sent = MaxWorkers

\* The RestoreCheckpoint requests in flight.
RestoreRequests == {r \in pending : r.type = "EmitRestoreCheckpoint"}

\* C24 -- Every restore (resume at startup, or data-loss recovery at iteration
\* i) selects the greatest snapshot index c, with c <= i after a data-loss,
\* reads the meta and the model of checkpoint c, and sends
\* RestoreCheckpoint(c, S, K) to each of the W workers exactly once (unless a
\* send fails), where S is the shard count of the meta of checkpoint c and K
\* the num_trees_per_iter of the restored model.
C24_RestoreGreatestSnapshot ==
  /\ [](pc = "EmitRestoreCheckpoint" =>
          /\ ckpt.iter_idx = Max(snapshots)
          /\ CanRestore(ckpt.iter_idx)
          /\ model = StoredModel(ckpt.iter_idx)
          /\ label_statistics = StoredMeta(ckpt.iter_idx).label_statistics
          /\ \A r \in RestoreRequests :
                /\ r.iter_idx = ckpt.iter_idx
                /\ r.num_shards = StoredMeta(ckpt.iter_idx).num_shards
                /\ r.num_weak_models =
                      StoredModel(ckpt.iter_idx).num_trees_per_iter
          /\ \A r, q \in RestoreRequests : r.worker = q.worker => r = q
          /\ (phase = "recv" /\ emit.recv = 0) =>
                /\ emit.sent = config.num_workers
                /\ {r.worker : r \in RestoreRequests} = Workers)
  /\ [][(pc = "IterStatus" /\ pc' = "EmitRestoreCheckpoint") =>
          /\ ckpt'.iter_idx <= iter_idx
          /\ iter_idx' = ckpt'.iter_idx]_vars
  /\ [][(pc = "Initialize" /\ pc' = "EmitRestoreCheckpoint") =>
          iter_idx' = ckpt'.iter_idx]_vars

\* After a data-loss a manager of half the workers has sent RestoreCheckpoint
\* to each of its workers, for a checkpoint written in two shards where its own
\* worker count gives one.
C24_Witness ==
  /\ pc = "EmitRestoreCheckpoint" /\ phase = "recv" /\ emit.recv = 0
  /\ resync
  /\ config.num_workers = MaxCkptWorkers \div 2
  /\ Cardinality(RestoreRequests) = config.num_workers
  /\ \A r \in RestoreRequests : r.num_shards = 2
  /\ NumShards(config.num_workers) = 1

\* The requests of emitter `kind` in flight.
RequestsOf(kind) == {r \in pending : r.type = kind}

\* The emitter at hand returned OK after one request to each worker and one
\* reply of each.
BroadcastAcknowledged(kind) ==
  /\ emit'.kind = kind /\ emit'.result = "ok"
  /\ emit'.sent = config.num_workers /\ emit'.recv = config.num_workers
  /\ pending' = {}

\* C25 -- Startup sequence of TrainWithCache: StartTraining is broadcast and
\* fully acknowledged before any other worker request; then exactly one branch
\* runs before the loop: with a snapshot, the restore (RestoreCheckpoint
\* broadcast) and neither GetLabelStatistics nor SetInitialPredictions; without,
\* GetLabelStatistics to exactly one worker and, after its reply,
\* SetInitialPredictions broadcast to all W workers, and no RestoreCheckpoint.
C25_StartupSequence ==
  /\ [](pc = "EmitStartTraining" =>
          /\ emit.kind \in {"none", "EmitStartTraining"}
          /\ pending = RequestsOf("EmitStartTraining"))
  /\ []((Running /\ pc # "EmitStartTraining") =>
          RequestsOf("EmitStartTraining") = {})
  /\ [][(pc = "EmitStartTraining" /\ pc' # pc) =>
          \/ pc' = "Initialize" /\ BroadcastAcknowledged("EmitStartTraining")
          \/ pc' = "returned" /\ status' # "ok"]_vars
  /\ [][pc = "Initialize" =>
          /\ snapshots # {} =>
                \/ pc' = "EmitRestoreCheckpoint"
                \/ pc' = "returned" /\ status' # "ok"
          /\ snapshots = {} => pc' = "EmitGetLabelStatistics"]_vars
  /\ [][(pc = "EmitRestoreCheckpoint" /\ ~resync /\ pc' # pc) =>
          \/ pc' = "LoopHead"
             /\ BroadcastAcknowledged("EmitRestoreCheckpoint")
          \/ pc' = "returned" /\ status' # "ok"]_vars
  /\ [][(pc = "EmitGetLabelStatistics" /\ phase = "call") =>
          /\ pending = {}
          /\ \E w \in Workers :
                pending' = {Request("EmitGetLabelStatistics", w, 0)}
          /\ emit'.kind = "EmitGetLabelStatistics"
          /\ emit'.sent = 1 /\ emit'.recv = 0
          /\ pc' = pc /\ phase' = "recv"]_vars
  /\ [][(pc = "EmitGetLabelStatistics" /\ phase = "recv") =>
          /\ emit'.kind = "EmitGetLabelStatistics"
          /\ emit'.sent = 1 /\ emit'.recv = 1
          /\ pending' = {}
          /\ \/ pc' = "EmitSetInitialPredictions" /\ emit'.result = "ok"
             \/ pc' = "returned" /\ status' # "ok"]_vars
  /\ [][(pc = "EmitSetInitialPredictions" /\ pc' # pc) =>
          \/ pc' = "LoopHead"
             /\ BroadcastAcknowledged("EmitSetInitialPredictions")
          \/ pc' = "returned" /\ status' # "ok"]_vars
  /\ [](pc \in {"EmitGetLabelStatistics", "EmitSetInitialPredictions"} =>
          /\ snapshots = {}
          /\ RequestsOf("EmitRestoreCheckpoint") = {})
  /\ []((pc = "EmitRestoreCheckpoint" /\ ~resync /\ Running) =>
          /\ snapshots # {}
          /\ label_statistics = StoredMeta(ckpt.iter_idx).label_statistics
          /\ RequestsOf("EmitSetInitialPredictions") = {})
  /\ []((pc = "EmitStartNewIter" /\ phase = "call") =>
          /\ label_statistics = "dataset"
          /\ pending = {})

\* A fresh run on MaxWorkers workers reached the loop after StartTraining,
\* GetLabelStatistics and the broadcast of SetInitialPredictions.
C25_Witness ==
  /\ pc = "LoopHead" /\ snapshots = {}
  /\ emit.kind = "EmitSetInitialPredictions" /\ emit.result = "ok"
  /\ emit.sent = MaxWorkers /\ emit.recv = MaxWorkers
  /\ config.num_workers = MaxWorkers
  /\ label_statistics = "dataset"
  /\ iter_idx = 0

\* ------------------------------------------------------------------- C26
\* A process that starts on a work directory with snapshots resumes at the
\* greatest one: the loop starts at its index with its model and label
\* statistics, and the first checkpoint it may write is the next index.
ResumesAtSnapshot ==
  (pc = "Initialize" /\ snapshots # {} /\ pc' = "EmitRestoreCheckpoint") =>
     LET i == Max(snapshots) IN
       /\ iter_idx' = i /\ last_checkpoint_idx' = i
       /\ model' = StoredModel(i)
       /\ model'.trees = i * model'.num_trees_per_iter
       /\ label_statistics' = StoredMeta(i).label_statistics
       /\ minimum_iter_for_new_checkpoint' = i + 1

\* The StartNewIter requests in flight name iteration iter_idx and carry the
\* seed the uninterrupted run sends for that iteration: the value of its
\* (iter_idx + 1)-th call of random().
SeedOfUninterruptedRun ==
  \A r \in RequestsOf("EmitStartNewIter") :
     r.iter_idx = iter_idx /\ r.seed = Seed(iter_idx)

\* C26 -- Checkpoint round-trip: a manager launched on a work directory whose
\* greatest snapshot is i starts its loop at iteration i with the model (i*K
\* trees) and label statistics of checkpoint i, does not write checkpoint i
\* again, and runs iterations i, i+1, ... as the uninterrupted run does, each
\* with the StartNewIter seed it has in the uninterrupted run.
C26_CheckpointRoundTrip ==
  /\ [][ResumesAtSnapshot]_vars
  /\ [][pc = "AddSnapshot" => ckpt.iter_idx \notin snapshots]_vars
  /\ [](restored = -1 => SeedOfUninterruptedRun)

\* ------------------------------------------------------------------- C27
\* The seeds of the iterations of the failure-free run of one process: the
\* iteration of index i is driven by the value of the (i + 1)-th call of
\* random().
FailureFreeSeeds == [i \in 1 .. config.num_trees |-> Seed(i - 1)]

\* C27 -- Data-loss idempotence: a training in which a worker asked for the
\* restart of an iteration returns the model of the failure-free run: the same
\* number of trees, every iteration that contributed trees driven by the
\* StartNewIter seed it has in the failure-free run.
C27_DataLossIdempotence ==
  (pc = "returned" /\ status = "ok") =>
     /\ model.trees = config.num_trees * model.num_trees_per_iter
     /\ model.seeds = FailureFreeSeeds

\* ------------------------------------------------------------------- C28
\* The last reply consumed carried request_restart_iter.
RestartReply == emit.reply.ok /\ emit.reply.restart

\* The indices 0, 1, ..., n - 1 in order.
Iterations(n) == [i \in 1 .. n |-> i - 1]

\* The step that calls Done on the distribute manager: the loop is over, the
\* final checkpoint is written or not needed, no reply is outstanding.
DoneAfterLastCheckpointAndReply ==
  pc = "Done" =>
     /\ iter_idx = config.num_trees
     /\ snapshots # {} /\ Max(snapshots) >= iter_idx
     /\ pending = {}
     /\ pc' = "returned"

\* C28 -- No iteration is silently skipped and training terminates: with a
\* reply to every request and finitely many replies that carry
\* request_restart_iter, TrainWithCache eventually returns; when it returns OK
\* the iterations whose trees are in the model are exactly 0 .. num_trees - 1,
\* each once and in order, and Done was called once, as the last step, after
\* the last checkpoint and the last reply.
C28_TerminatesWithoutSkipping ==
  /\ (<>[](~RestartReply)) => <>(pc = "returned")
  /\ [](pc # "crashed")
  /\ []((pc = "returned" /\ status = "ok") =>
          /\ model.iters = Iterations(config.num_trees)
          /\ model.trees = config.num_trees * model.num_trees_per_iter)
  /\ [][DoneAfterLastCheckpointAndReply]_vars
  /\ [][(pc' = "returned" /\ status' = "ok") => pc = "Done"]_vars
  /\ [][pc # "returned"]_vars

\* The same for a call that ends by a return or by the end of the process.
C28_EndsWithoutSkipping ==
  /\ (<>[](~RestartReply)) => <>(pc \in {"returned", "crashed"})
  /\ []((pc = "returned" /\ status = "ok") =>
          /\ model.iters = Iterations(config.num_trees)
          /\ model.trees = config.num_trees * model.num_trees_per_iter)
  /\ [][DoneAfterLastCheckpointAndReply]_vars
  /\ [][(pc' = "returned" /\ status' = "ok") => pc = "Done"]_vars
  /\ [][pc # "returned"]_vars

\* ------------------------------------------------------------------- C29
\* The step consumed a reply of the running emitter.
ConsumesReply ==
  /\ emit'.kind # "none"
  /\ IF emit'.kind = emit.kind THEN emit'.recv > emit.recv
                               ELSE emit'.recv > 0

\* The reply the step consumed is an OK reply without the restart-iter flag
\* whose variant is not the one of the request.
ConsumesMismatch ==
  /\ ConsumesReply
  /\ emit'.reply.ok /\ ~emit'.reply.restart /\ ~emit'.reply.has

\* C29 -- Protocol mismatch is fatal: in every emitter a reply without the
\* restart-iter flag whose variant differs from the request's makes the emitter
\* return an internal error at once; TrainWithCache returns that error without
\* restoring a checkpoint, without another request and without touching the
\* model or the stored checkpoints.
C29_ProtocolMismatchFatal ==
  /\ [][ConsumesMismatch =>
          /\ emit'.result = "internal"
          /\ IF InRunIteration(emit'.kind)
               THEN pc' = "IterStatus" /\ iter_status' = "internal"
               ELSE pc' = "returned" /\ status' = "internal"]_vars
  /\ [][(pc = "IterStatus" /\ iter_status = "internal") =>
          /\ pc' = "returned" /\ status' = "internal"
          /\ UNCHANGED <<model, iter_idx, pending, snapshots,
                         checkpoint_dir>>]_vars

\* A mismatching reply inside an iteration ended the training with an internal
\* error while a snapshot to restore was stored.
C29_Witness ==
  /\ pc = "returned" /\ status = "internal" /\ iter_status = "internal"
  /\ snapshots # {}

\* ------------------------------------------------------------------- C30
\* The deployment CheckConfiguration accepts according to the claim.
StatedAccepted(d) == d.cache_path # "" /\ d.working_directory = ""

\* Nothing was set up: no work directory resolved, no dataset cache, no
\* request sent to a worker.
NothingSetUp ==
  /\ work_directory = "" /\ dataset_cache = FALSE
  /\ pending = {} /\ emit = NoEmit

\* C30 -- Configuration validation: CheckConfiguration returns
\* invalid-argument when cache_path is empty and when
\* distribute.working_directory is not empty, and OK exactly for a non-empty
\* cache_path with an empty working directory; TrainWithStatus returns that
\* error before it resolves a work directory, creates the dataset cache or
\* sends a worker request.
C30_ConfigurationValidation ==
  /\ [](CheckConfiguration(deployment) =
          IF StatedAccepted(deployment) THEN "ok" ELSE "invalid_argument")
  /\ [][pc = "CheckConfiguration" =>
          IF StatedAccepted(deployment)
            THEN pc' = "WorkDirectory"
            ELSE pc' = "returned" /\ status' = "invalid_argument"]_vars
  /\ [](pc \in {"LinkTrainingConfig", "SetDefaultHyperParameters",
                 "CheckConfiguration"} => NothingSetUp)
  /\ [](~StatedAccepted(deployment) => NothingSetUp)

\* A deployment with a cache path and a working directory was rejected.
C30_Witness ==
  /\ pc = "returned" /\ status = "invalid_argument"
  /\ deployment.cache_path # "" /\ deployment.working_directory # ""

\* ------------------------------------------------------------------- C31
\* C31 -- Training from an in-memory dataset fails at once with the
\* invalid-argument error, for every dataset, configuration and deployment:
\* the call is one step that returns the error and resolves no work directory,
\* creates no dataset cache, no checkpoint file and no snapshot, and sends no
\* worker request.
C31_InMemoryUnsupported ==
  /\ [](pc = "TrainInMemory" => NothingSetUp)
  /\ [][pc = "TrainInMemory" =>
          /\ pc' = "returned" /\ status' = "invalid_argument"
          /\ NothingSetUp'
          /\ UNCHANGED <<model, snapshots, checkpoint_dir>>]_vars

\* The in-memory call returned its error under a deployment the path version
\* accepts.
C31_Witness ==
  /\ pc = "returned" /\ status = "invalid_argument"
  /\ StatedAccepted(deployment)
  /\ NothingSetUp /\ snapshots = {}

\* ------------------------------------------------------------------- C32
\* Every request of emitter `kind` was sent and no reply was read yet.
AllSent(kind) ==
  /\ pc = kind /\ phase = "recv"
  /\ emit.kind = kind /\ emit.recv = 0

\* The pending requests are one request of emitter `kind` to each worker of
\* `targets`, and to no other.
OnePerWorker(kind, targets) ==
  /\ \A r \in pending : r.type = kind /\ r.worker \in targets
  /\ \A w \in targets : Cardinality({r \in pending : r.worker = w}) = 1
  /\ emit.sent = Cardinality(targets)

\* The pending EvaluateSplits requests that hold split v = <<weak model,
\* split>> (positions counted from 1, split indices from 0).
Evaluators(v) ==
  {r \in pending :
     \E i \in DOMAIN r.split_per_weak_model[v[1]] :
        r.split_per_weak_model[v[1]][i] = v[2] - 1}

\* C32 -- Active workers: EvaluateSplits is sent exactly once to each worker
\* of the active set and to no other worker, and the active set is not empty;
\* every valid merged split is in the request of exactly one active worker,
\* an owner of the split's feature, and an invalid split is in no request;
\* ShareSplits is sent to all W workers and every request carries the active
\* workers EmitEvaluateSplits computed.
C32_ActiveWorkers ==
  /\ [](AllSent("EmitEvaluateSplits") =>
          /\ active_workers # {} /\ active_workers \subseteq Workers
          /\ OnePerWorker("EmitEvaluateSplits", active_workers)
          /\ \A k \in DOMAIN splits_per_weak_models :
               \A i \in DOMAIN splits_per_weak_models[k] :
                  LET split == splits_per_weak_models[k][i]
                      evals == Evaluators(<<k, i>>)
                  IN  IF split.valid
                        THEN /\ Cardinality(evals) = 1
                             /\ \A r \in evals :
                                  /\ r.worker \in
                                       Range(feature_ownership.feature_to_worker
                                               [split.attribute])
                                  /\ Cardinality(
                                       {j \in DOMAIN r.split_per_weak_model[k] :
                                          r.split_per_weak_model[k][j] = i - 1})
                                     = 1
                        ELSE evals = {})
  /\ [](AllSent("EmitShareSplits") =>
          /\ OnePerWorker("EmitShareSplits", Workers)
          /\ \A r \in pending : r.active_workers = active_workers)
  /\ [][pc = "EmitEvaluateSplits" /\ pc' = "EmitShareSplits" =>
          /\ active_workers' = active_workers
          /\ splits_per_weak_models' = splits_per_weak_models]_vars
  /\ [][pc = "EmitShareSplits" /\ phase = "call" /\ phase' = "recv" =>
          active_workers' = active_workers]_vars

\* ShareSplits went to two workers of which one only is active, for merged
\* splits with an invalid split.
C32_Witness ==
  /\ AllSent("EmitShareSplits")
  /\ Cardinality(pending) = 2
  /\ \E r \in pending : r.active_workers = {1}
  /\ \E k \in DOMAIN splits_per_weak_models :
       \E i \in DOMAIN splits_per_weak_models[k] :
          ~splits_per_weak_models[k][i].valid

\* ------------------------------------------------------------------- C33
\* The <<worker, position>> pairs at which the pending FindSplits requests
\* hold feature f for open node n of weak model k.
Holders(k, n, f) ==
  UNION {{<<r.worker, i>> :
            i \in {j \in DOMAIN r.features_per_weak_models[k][n] :
                     r.features_per_weak_models[k][n][j] = f}} :
         r \in pending}

\* C33 -- FindSplits fan-out: EmitFindSplits sends exactly one request to each
\* of the W workers, also to a worker without any sampled feature; the request
\* to worker w has one feature list per weak model and open node, and every
\* feature of it is in worker_to_feature[w]; with replication disabled the
\* num_sampled_features features sampled for a weak model and open node are
\* each in the request of exactly one worker, once.
C33_FindSplitsFanOut ==
  AllSent("EmitFindSplits") =>
    /\ OnePerWorker("EmitFindSplits", Workers)
    /\ \A r \in pending :
         /\ DOMAIN r.features_per_weak_models = DOMAIN weak_models
         /\ \A k \in DOMAIN weak_models :
              /\ DOMAIN r.features_per_weak_models[k] = 1 .. weak_models[k]
              /\ \A n \in 1 .. weak_models[k] :
                   Range(r.features_per_weak_models[k][n]) \subseteq
                     Range(feature_ownership.worker_to_feature[r.worker])
    /\ ~duplicate_computation_on_all_workers =>
         \A p \in OpenNodes(weak_models) :
            /\ \A f \in FeatureIdxs : Cardinality(Holders(p[1], p[2], f)) <= 1
            /\ Cardinality({f \in Range(features) :
                              Cardinality(Holders(p[1], p[2], f)) = 1})
               = NumSampledFeatures(dt_config, features)

\* Two workers, no replication, fewer features sampled than there are: one of
\* the requests has no feature at all, the other one has some.
C33_Witness ==
  /\ AllSent("EmitFindSplits")
  /\ config.num_workers = 2 /\ ~duplicate_computation_on_all_workers
  /\ OpenNodes(weak_models) # {}
  /\ NumSampledFeatures(dt_config, features) < Len(features)
  /\ \E r \in pending :
       \A k \in DOMAIN weak_models : \A n \in 1 .. weak_models[k] :
          r.features_per_weak_models[k][n] = <<>>
  /\ \E r \in pending :
       \E k \in DOMAIN weak_models : \E n \in 1 .. weak_models[k] :
          r.features_per_weak_models[k][n] # <<>>

\* ------------------------------------------------------------------- C34
\* C34 -- EndIter fan-out: of the W EndIter requests exactly one has
\* compute_training_loss, the one to worker 0; when EmitEndIter has returned
\* OK the training evaluation holds the loss and the metrics of the reply that
\* had a training loss (of the one read last, should several have one), in
\* whatever order the replies came.
C34_EndIterFanOut ==
  /\ AllSent("EmitEndIter") =>
       /\ OnePerWorker("EmitEndIter", Workers)
       /\ \A r \in pending : r.compute_training_loss <=> r.worker = 0
       /\ Cardinality({r \in pending : r.compute_training_loss}) = 1
  /\ (pc = "IterStatus" /\ iter_status = "ok" /\ emit.losses # <<>>) =>
       /\ emit.kind = "EmitEndIter"
       /\ training_evaluation =
            WorkerTrainingLoss(emit.losses[Len(emit.losses)])
       /\ training_evaluation.loss = training_evaluation.metrics[1]

\* EndIter returned OK with two workers and both replies read, the reply of
\* worker 0 being the one with a training loss: the evaluation holds it.
C34_Witness ==
  /\ pc = "IterStatus" /\ iter_status = "ok"
  /\ config.num_workers = 2
  /\ emit.kind = "EmitEndIter" /\ emit.recv = 2
  /\ emit.losses = <<EndIterRequest(0)>>
  /\ training_evaluation = [loss |-> 101, metrics |-> <<101>>]

\* ------------------------------------------------------------------- C39
\* RunIteration returned data-loss.
ReturnedDataLoss == pc = "IterStatus" /\ iter_status = "data_loss"

\* The model holds the trees and the log entries of the iterations before
\* iter_idx, and no other.
ModelBeforeIteration ==
  /\ model.trees = iter_idx * model.num_trees_per_iter
  /\ model.logs = iter_idx

\* Trees and a log entry are added by the OK return of EmitEndIter only.
AddedAfterEndIterOnly ==
  [][model' # model =>
       /\ pc = "EmitEndIter" /\ pc' = "IterStatus" /\ iter_status' = "ok"
       /\ model'.trees = model.trees + model.num_trees_per_iter
       /\ model'.logs = model.logs + 1]_vars

\* C39 as stated -- Data-loss frame: a RunIteration call that returns data-loss
\* leaves the model's trees and training-log entries unchanged and leaves the
\* training evaluation (loss, metrics) unchanged; trees and the log entry are
\* added only after EndIter has returned OK.
C39_DataLossFrame ==
  /\ [](ReturnedDataLoss =>
          ModelBeforeIteration /\ training_evaluation = InitialEvaluation)
  /\ AddedAfterEndIterOnly

\* C39 amended -- a RunIteration call that returns data-loss leaves the model's
\* trees and training-log entries unchanged; the training evaluation is
\* unchanged unless the data-loss comes from EmitEndIter after a reply with a
\* training loss was read, and then it holds the loss and metrics of the last
\* such reply; trees and the log entry are added only after EndIter has
\* returned OK.
C39_DataLossFrame_Amended ==
  /\ [](ReturnedDataLoss =>
          /\ ModelBeforeIteration
          /\ training_evaluation =
               IF emit.kind = "EmitEndIter" /\ emit.losses # <<>>
                 THEN WorkerTrainingLoss(emit.losses[Len(emit.losses)])
                 ELSE InitialEvaluation)
  /\ AddedAfterEndIterOnly

\* EmitEndIter returned data-loss with the loss of the failed iteration in the
\* training evaluation and no tree in the model.
C39_Witness ==
  /\ ReturnedDataLoss
  /\ emit.kind = "EmitEndIter"
  /\ emit.losses = <<EndIterRequest(0)>>
  /\ training_evaluation = WorkerTrainingLoss(EndIterRequest(0))
  /\ training_evaluation # InitialEvaluation
  /\ model.trees = 0 /\ model.logs = 0

\* ------------------------------------------------------------------- C35
\* The emitters that open a stage of their own; EmitCreateCheckpoint runs
\* inside the stage CreateCheckpoint opens.
BracketedEmitters ==
  {"EmitStartTraining", "EmitRestoreCheckpoint", "EmitGetLabelStatistics",
   "EmitSetInitialPredictions", "EmitStartNewIter", "EmitFindSplits",
   "EmitEvaluateSplits", "EmitShareSplits", "EmitEndIter"}

\* A step that calls BeginStage.
CallsBeginStage ==
  \/ /\ pc \in BracketedEmitters /\ phase = "call"
     /\ (phase' = "recv" \/ pc' # pc)
  \/ pc = "CreateCheckpoint" /\ pc' = "EmitCreateCheckpoint"

\* The driver is between two emitter calls: no emitter is running, it is not
\* inside CreateCheckpoint, and the training has not ended with an error.
BetweenEmitters ==
  /\ phase = "call"
  /\ pc \notin {"EmitCreateCheckpoint", "SetBinaryProto", "AddSnapshot",
                "returned", "crashed"}
  /\ pc = "IterStatus" => iter_status \in {"ok", "data_loss"}

\* C35 -- Stage brackets are balanced: every emitter opens its stage with
\* BeginStage while no stage is open and closes it before it returns, for OK
\* and for data-loss returns alike; between two emitter calls the current stage
\* is -1, and no BeginStage is rejected because a stage was left open.
C35_StageBrackets ==
  /\ [](BetweenEmitters => current_stage = NoStage)
  /\ [][CallsBeginStage => current_stage = NoStage]_vars

\* ------------------------------------------------------------------- C36
\* C36 -- SampleFeatures(features, n): for 0 <= n <= |features| every result is
\* a list of n pairwise distinct elements of features, and for n = |features|
\* the one result is features itself, in its order, the random engine not
\* used (it is used, by std::shuffle, for n < |features|); for n > |features|
\* the result is the internal error, and EmitFindSplits returns it, with no
\* request sent and the engine as it was, whenever num_candidate_attributes
\* exceeds the number of input features.  When EmitFindSplits samples all the
\* input features the engine is after the call as it was before; when it
\* samples fewer it is used once for every open node.
C36_SampleFeatures ==
  /\ [](\A n \in 0 .. (MaxFeatures + 1) :
          LET res == SampleFeatures(features, n)
          IN  IF n > Len(features)
                THEN res = {[status |-> "internal", sample |-> <<>>,
                             uses |-> 0]}
                ELSE /\ res # {}
                     /\ \A o \in res :
                          /\ o.status = "ok"
                          /\ Len(o.sample) = n
                          /\ Range(o.sample) \subseteq Range(features)
                          /\ \A i, j \in 1 .. n :
                                i # j => o.sample[i] # o.sample[j]
                          /\ o.uses = IF n = Len(features) THEN 0 ELSE 1
                     /\ n = Len(features) =>
                          res = {[status |-> "ok", sample |-> features,
                                  uses |-> 0]})
  /\ [][(/\ pc = "EmitFindSplits" /\ phase = "call"
         /\ dt_config.num_candidate_attributes > Len(features)) =>
          /\ pc' = "IterStatus" /\ iter_status' = "internal"
          /\ pending' = pending /\ emit'.sent = 0
          /\ rnd' = rnd]_vars
  /\ [][(pc = "EmitFindSplits" /\ phase = "call") =>
          rnd' = IF NumSampledFeatures(dt_config, features) < Len(features)
                   THEN rnd + Cardinality(OpenNodes(weak_models))
                   ELSE rnd]_vars

\* EmitFindSplits returned the internal error of SampleFeatures, asked for one
\* feature more than the input features, the random engine unused.
C36_Witness ==
  /\ pc = "IterStatus" /\ iter_status = "internal"
  /\ emit.kind = "EmitFindSplits" /\ emit.sent = 0 /\ rnd = 0
  /\ features # <<>>
  /\ dt_config.num_candidate_attributes = Len(features) + 1

\* ------------------------------------------------------------------- C37
\* The examples of the range of request r.
Examples(r) == r.begin_example_idx .. (r.end_example_idx - 1)

\* C37 -- Shard ranges: for every number of examples N >= 0 and shard count
\* S >= 1 the ranges [s*ceil(N/S), min(N, (s+1)*ceil(N/S))) of the
\* CreateCheckpoint requests for s = 0..S-1 are well-formed (begin <= end),
\* pairwise disjoint, and their union is [0, N).
C37_ShardRanges ==
  AllSent("EmitCreateCheckpoint") =>
    /\ {r.shard_idx : r \in pending} = 0 .. (ckpt.num_shards - 1)
    /\ \A r \in pending :
         LET per == CeilDiv(dataset_num_examples, ckpt.num_shards)
         IN  /\ r.begin_example_idx = r.shard_idx * per
             /\ r.end_example_idx =
                  (IF dataset_num_examples < (r.shard_idx + 1) * per
                     THEN dataset_num_examples
                     ELSE (r.shard_idx + 1) * per)
             /\ r.begin_example_idx <= r.end_example_idx
    /\ \A r1, r2 \in pending :
         r1 # r2 => Examples(r1) \cap Examples(r2) = {}
    /\ UNION {Examples(r) : r \in pending} = 0 .. (dataset_num_examples - 1)

\* ------------------------------------------------------------------- C38
\* The answer loop of EmitCreateCheckpoint is running.
InAnswerLoop == pc = "EmitCreateCheckpoint" /\ phase = "recv"

\* A step of the answer loop that reads an answer with a shard (no restart, no
\* error) and renames its file.
RenamesShard ==
  /\ InAnswerLoop
  /\ reply_idx' = reply_idx + 1 \/ pc' = "SetBinaryProto"

\* C38 -- Shard completeness: when EmitCreateCheckpoint returns OK, whatever
\* the order of the replies and the reissues within the budget, each shard s of
\* 0..S-1 was renamed into the checkpoint directory as predictions-s-of-S
\* exactly once, with S = max(1, W div 4): at every moment of the answer loop
\* one request is outstanding for each shard not renamed yet and none for a
\* renamed one, every answer renames the shard of its request, and the call
\* returns after S renames with no request outstanding.
C38_ShardsRenamedOnce ==
  /\ [](InAnswerLoop =>
          /\ ckpt.num_shards = NumShards(config.num_workers)
          /\ \A r \in pending :
               /\ r.type = "EmitCreateCheckpoint"
               /\ r.shard_idx = r.id
               /\ r.id \in 0 .. (ckpt.num_shards - 1)
          /\ \A r1, r2 \in pending : r1.id = r2.id => r1 = r2
          /\ Cardinality(pending) = ckpt.num_shards - reply_idx)
  /\ [][RenamesShard =>
          \E r \in pending :
             /\ pending' = pending \ {r}
             /\ checkpoint_dir' =
                  [checkpoint_dir EXCEPT
                     ![ckpt.iter_idx].shards =
                        @ \cup {ShardFilename(r.shard_idx, ckpt.num_shards)}]
             /\ pc' = "SetBinaryProto" <=> reply_idx + 1 = ckpt.num_shards]_vars
  /\ [](pc = "SetBinaryProto" =>
          /\ ShardFiles(ckpt.num_shards) \subseteq
               checkpoint_dir[ckpt.iter_idx].shards
          /\ pending = {}
          /\ emit.kind = "EmitCreateCheckpoint" /\ emit.recv = emit.sent)

\* EmitCreateCheckpoint returned OK for two shards after a shard request was
\* reissued.
C38_Witness ==
  /\ pc = "SetBinaryProto"
  /\ ckpt.num_shards = 2
  /\ emit.kind = "EmitCreateCheckpoint" /\ emit.sent > 2
  /\ checkpoint_dir[ckpt.iter_idx].shards = ShardFiles(2)

\* ------------------------------------------------------------------- C40
\* The model of K trees per iteration as it is before iteration c runs.
BeforeIteration(m, c) ==
  /\ m.num_trees_per_iter = TreesPerIter
  /\ m.trees = c * TreesPerIter
  /\ m.logs = c

\* C40 -- Checkpoint and model agree: every checkpoint recorded at snapshot
\* index c stores one model, with c*K trees and c training-log entries, in a
\* fresh run, after a resume and after data-loss recoveries; the snapshot is
\* recorded while the driver's model is that model, and after a restore the
\* iterations go on at index c with K times c trees.
C40_CheckpointModelAgreement ==
  /\ [](\A c \in snapshots :
          /\ Cardinality(checkpoint_dir[c].model) = 1
          /\ BeforeIteration(StoredModel(c), c))
  /\ [](pc = "AddSnapshot" =>
          /\ checkpoint_dir[ckpt.iter_idx].model = {model}
          /\ BeforeIteration(model, ckpt.iter_idx))
  /\ []((pc = "EmitStartNewIter" /\ phase = "call" /\ restored # -1) =>
          BeforeIteration(model, iter_idx))
  /\ [][(pc = "LoopHead" /\ emit.kind = "EmitRestoreCheckpoint"
           /\ restored # -1) =>
          /\ iter_idx = restored /\ iter_idx' = restored
          /\ model = StoredModel(restored) /\ model' = model]_vars

\* A checkpoint of index c >= 1 with K = MaxTreesPerIter was recorded after the
\* restore of an earlier checkpoint.
C40_Witness ==
  /\ TreesPerIter = MaxTreesPerIter
  /\ restored # -1
  /\ \E c \in snapshots :
       /\ c >= 1 /\ c > restored
       /\ StoredModel(c).trees = c * MaxTreesPerIter
       /\ StoredModel(c).logs = c
       /\ StoredModel(c).iters[c] = c - 1
====
